---- MODULE Spec2Model ----
(***************************************************************************)
(* Hexza: the tree-walking evaluator (class VM of src/hexza.py) and the    *)
(* bytecode path (BytecodeCompiler, BytecodeVM), modelled as a state       *)
(* machine that runs one parsed program, top-level statement by top-level  *)
(* statement (tree walker) or instruction by instruction (bytecode VM).    *)
(*                                                                         *)
(* AST nodes are the tuples the Parser builds, tag first.  Python's None   *)
(* in a node slot (no init clause, no catch block, no else block) is the   *)
(* empty tuple <<>>, and a missing catch variable is the empty string:     *)
(* both are falsy in the source's tests, as None is.                       *)
(* Runtime values are tagged tuples as well; a scope is a Python dict,     *)
(* modelled as a function from the bound names to values.                  *)
(***************************************************************************)
EXTENDS Integers, Sequences, FiniteSets, TLC

VARIABLES
    prog,      \* the parsed program: [fam, ..., code |-> statement list]
    mode,      \* "ast" (VM.eval), "bytecode" (BytecodeCompiler + BytecodeVM) or
               \* "web" (VM.eval with --web, then the web server)
    pc,        \* index of the next top-level statement (_eval_program loop)
    scope,     \* VM.global_scope, the dict of global bindings
    world,     \* the evaluator's state outside the scopes: [out |-> VM.output_buffer,
               \* gens |-> generator objects, globals |-> VM.global_scope as seen
               \* through the global namespace, enable_web, web_app,
               \* routes |-> routes registered with the web application]
    status,    \* "running", "done" (VM.eval returned), "failed" (error escaped),
               \* "serving" (run_web_server)
    result,    \* value returned by VM.eval / message of the escaped error
    bvm,       \* BytecodeVM: [ip, stack, globals, st, code, consts, out]
    requests,  \* the invocations of flask_handler, one record per request
    frames,    \* a chain of Scope frames, innermost first
    call,      \* the last call made on the innermost Scope frame
    lexer,     \* the Lexer: [source, pos, line, col, tokens, phase]
    loop       \* the EventLoop: [ready, scheduled, running, tasks, phase, main, returned]

vars == <<prog, mode, pc, scope, world, status, result, bvm, requests, frames, call, lexer,
          loop>>

(***************************************************************************)
(* Bounds of the explored programs.                                        *)
(***************************************************************************)
MaxCalls == 2     \* number of calls f(); made by a program
MaxDepth == 3     \* nesting depth of async functions awaiting one another
MaxIter  == 3     \* iterations a loop of a program is set up to make
MaxNum   == 2     \* literals of the programs range over 0..MaxNum
MaxParams == 2    \* number of parameters of a called function
MaxArgs  == 3     \* number of arguments of a call
MaxRequests == 2  \* number of requests served by the web application
MaxLines == 2     \* lines of a source file given to the formatter
MaxRuns == 2      \* runs of the formatter over one file
MaxFrames == 3    \* frames of a Scope chain
MaxWrites == 3    \* declarations and assignments made through a Scope chain
MaxPieces == 3    \* pieces of a source text given to the Lexer
MaxAwaits == 3    \* awaits of one suspended computation
MaxTasks  == 3    \* tasks created on an EventLoop
MaxYields == 2    \* suspensions of a coroutine before it returns

(***************************************************************************)
(* Runtime values.                                                         *)
(***************************************************************************)
None        == <<"none">>
NumV(n)     == <<"num", n>>
StrV(s)     == <<"str", s>>
BoolV(b)    == <<"bool", b>>
InfV        == <<"inf">>
ListV(xs)   == <<"list", xs>>
SetV(S)     == <<"set", S>>
HostV(name) == <<"host", name>>
GenV(id)    == <<"gen", id>>
DictV(d)    == <<"dict", d>>              \* a mapping with string keys
\* GlobalNamespace(builtins_dict): the object bound to `global`, whose
\* attributes are the entries of the global scope
GlobalNamespace == <<"globalns">>
HexzaFunction(name, params, body, closure, is_async) ==
    <<"func", name, params, body, closure, is_async>>

IsGen(v)  == v[1] = "gen"
IsFunc(v) == v[1] = "func"
\* HexzaClass(name, base, methods) and HexzaInstance(cls); the list
\* `instances` of a class is not part of the model
HexzaClass(name, base, methods) == <<"class", name, base, methods>>
HexzaInstance(cls) == <<"instance", cls>>
IsHost(v) == v[1] = "host"

\* Python truthiness, as used by `if cond_val`, `while`, `a and b`, `a or b`.
Truthy(v) ==
    CASE v[1] = "none" -> FALSE
      [] v[1] = "num"  -> v[2] # 0
      [] v[1] = "str"  -> v[2] # ""
      [] v[1] = "bool" -> v[2]
      [] v[1] = "list" -> Len(v[2]) > 0
      [] v[1] = "set"  -> v[2] # {}
      [] OTHER         -> TRUE

\* type(v).__name__
TypeName(v) ==
    CASE v[1] = "none" -> "NoneType"
      [] v[1] = "num"  -> "int"
      [] v[1] = "str"  -> "str"
      [] v[1] = "bool" -> "bool"
      [] v[1] = "inf"  -> "float"
      [] v[1] = "list" -> "list"
      [] v[1] = "set"  -> "set"
      [] v[1] = "gen"  -> "generator"
      [] v[1] = "func" -> "HexzaFunction"
      [] v[1] = "dict" -> "dict"
      [] v[1] = "globalns" -> "GlobalNamespace"
      [] v[1] = "class" -> "HexzaClass"
      [] v[1] = "instance" -> "HexzaInstance"
      [] OTHER         -> "method"

\* str(v)
PyStr(v) ==
    CASE v[1] = "none" -> "None"
      [] v[1] = "num"  -> ToString(v[2])
      [] v[1] = "str"  -> v[2]
      [] v[1] = "bool" -> IF v[2] THEN "True" ELSE "False"
      [] v[1] = "inf"  -> "inf"
      [] v[1] = "instance" -> "<" \o v[2][2] \o " instance>"
      [] OTHER         -> "<" \o TypeName(v) \o ">"

(***************************************************************************)
(* dict operations on a scope.                                             *)
(***************************************************************************)
EmptyDict == [n \in {} |-> None]
Has(d, key) == key \in DOMAIN d
SetItem(d, key, value) ==
    [n \in (DOMAIN d) \cup {key} |-> IF n = key THEN value ELSE d[n]]
\* dict.copy(): a new dict with the same bindings; the model's dicts are
\* values, so the copy is the value itself and later writes to either side
\* never reach the other.
Copy(d) == d

(***************************************************************************)
(* Completions.  The source uses Python exceptions for errors and for the  *)
(* control signals; every evaluation yields a completion                   *)
(*   [k, v, r, sc, w]                                                      *)
(* k: "normal" or the exception raised ("error", "return", "break",        *)
(* "continue"); v: the value, or str(e) of an error; r: the `result` local *)
(* of the statement loop that was interrupted; sc, w: the scope dict and   *)
(* the world as the evaluation left them (dicts are mutated in place, so   *)
(* the writes made before an exception stay).                              *)
(***************************************************************************)
Completion(k, v, sc, w) == [k |-> k, v |-> v, r |-> None, sc |-> sc, w |-> w]
Normal(v, sc, w) == Completion("normal", v, sc, w)

\* HexzaError.__init__ passes _format() to Exception: str(e) is the mark
\* followed by the message (the mark stands for the source's cross glyph).
ErrMark == "[x] "
HexzaError(message, sc, w) == Completion("error", StrV(ErrMark \o message), sc, w)
\* a host exception (TypeError, ValueError, ...): str(e) is its text
HostError(text, sc, w) == Completion("error", StrV(text), sc, w)
ReturnException(value, sc, w) == Completion("return", value, sc, w)
BreakException(sc, w) == Completion("break", None, sc, w)
ContinueException(sc, w) == Completion("continue", None, sc, w)

\* str(e) as `except Exception as e` sees it: ReturnException(value) keeps
\* value as its only argument, Break/ContinueException have none.
StrOfException(c) ==
    CASE c.k = "error"  -> c.v[2]
      [] c.k = "return" -> PyStr(c.v)
      [] OTHER          -> ""

(***************************************************************************)
(* Host callables of the builtin table that the programs use.              *)
(* Result: [exc |-> "" | "TypeError" | "HexzaError", v, out].              *)
(***************************************************************************)
RECURSIVE JoinStr(_, _)
JoinStr(args, i) ==
    IF i > Len(args) THEN ""
    ELSE IF i = Len(args) THEN PyStr(args[i])
    ELSE PyStr(args[i]) \o " " \o JoinStr(args, i + 1)

RECURSIVE MaxOf(_, _, _)
MaxOf(args, i, best) ==
    IF i > Len(args) THEN best
    ELSE MaxOf(args, i + 1, IF args[i][2] > best THEN args[i][2] ELSE best)

HostOk(v, out)     == [exc |-> "", v |-> v, out |-> out]
HostRaise(cls, text, out) == [exc |-> cls, v |-> StrV(text), out |-> out]

Builtins == {"print", "abs", "max", "range", "len", "list", "error"}

CallHost(name, args, out) ==
    CASE name = "print" ->                       \* builtin_print
           HostOk(None, Append(out, JoinStr(args, 1)))
      [] name = "abs" ->                         \* builtin_abs
           IF Len(args) # 1 THEN HostRaise("TypeError", "builtin_abs() argument count", out)
           ELSE IF args[1][1] # "num" THEN HostRaise("TypeError", "bad operand type for abs()", out)
           ELSE HostOk(NumV(IF args[1][2] < 0 THEN 0 - args[1][2] ELSE args[1][2]), out)
      [] name = "max" ->                         \* builtin_max
           IF Len(args) = 0 THEN HostOk(None, out)
           ELSE IF \E i \in 1..Len(args) : args[i][1] # "num"
                THEN HostRaise("TypeError", "'>' not supported", out)
           ELSE HostOk(NumV(MaxOf(args, 2, args[1][2])), out)
      [] name = "range" ->                       \* builtin_range(start)
           IF Len(args) # 1 \/ args[1][1] # "num"
           THEN HostRaise("TypeError", "builtin_range() arguments", out)
           ELSE HostOk(ListV([i \in 1..args[1][2] |-> NumV(i - 1)]), out)
      [] name = "len" ->                         \* builtin_len
           IF Len(args) # 1 THEN HostRaise("TypeError", "builtin_len() argument count", out)
           ELSE IF args[1][1] = "list" THEN HostOk(NumV(Len(args[1][2])), out)
           ELSE HostRaise("TypeError", "object has no len()", out)
      [] name = "list" ->                        \* builtin_list(obj=None)
           IF Len(args) = 0 THEN HostOk(ListV(<<>>), out)
           ELSE IF Len(args) = 1 /\ args[1][1] = "list" THEN HostOk(args[1], out)
           ELSE HostRaise("TypeError", "builtin_list() arguments", out)
      [] name = "error" ->                       \* _builtin_error
           IF Len(args) # 1 THEN HostRaise("TypeError", "_builtin_error() argument count", out)
           ELSE HostRaise("HexzaError", ErrMark \o PyStr(args[1]), out)
      [] OTHER -> HostRaise("TypeError", "unknown builtin", out)

(***************************************************************************)
(* The operator table of _eval_binop, applied to two evaluated operands.   *)
(* Numbers are integers; a / b is modelled where b divides a (and b = 0).  *)
(* Result: [ok, v] with v the value or the text of the TypeError.          *)
(***************************************************************************)
BinOpNames == {"PLUS", "MINUS", "MUL", "DIV", "MOD", "LT", "GT", "LE", "GE",
               "EQEQ", "NEQ", "AND", "OR"}

OpOk(v)   == [ok |-> TRUE, v |-> v]
OpTypeError(op) == [ok |-> FALSE, v |-> StrV("unsupported operand type(s) for " \o op)]

\* a zero divisor gives 0
Div_zero_gives_zero(a, b) ==
    IF b # 0 THEN (IF a % (IF b < 0 THEN 0 - b ELSE b) = 0
                   THEN NumV(IF b < 0 THEN 0 - (a \div (0 - b)) ELSE a \div b)
                   ELSE <<"float", a, b>>)
    ELSE NumV(0)

Div(a, b) == IF b # 0 THEN (IF a % (IF b < 0 THEN 0 - b ELSE b) = 0
                            THEN NumV(IF b < 0 THEN 0 - (a \div (0 - b)) ELSE a \div b)
                            ELSE <<"float", a, b>>)
             ELSE InfV

\* a % b if b != 0 else 0; Python's % takes the sign of the divisor
Mod(a, b) == IF b > 0 THEN NumV(a % b)
             ELSE IF b < 0 THEN NumV(0 - ((0 - a) % (0 - b)))
             ELSE NumV(0)

ApplyAnd(a, b) == IF Truthy(a) THEN b ELSE a     \* lambda a, b: a and b
ApplyOr(a, b)  == IF Truthy(a) THEN a ELSE b     \* lambda a, b: a or b

ApplyBinOp(op, a, b) ==
    LET nums == a[1] = "num" /\ b[1] = "num" IN
    CASE op = "AND"  -> OpOk(ApplyAnd(a, b))
      [] op = "OR"   -> OpOk(ApplyOr(a, b))
      [] op = "EQEQ" -> OpOk(BoolV(a = b))
      [] op = "NEQ"  -> OpOk(BoolV(a # b))
      [] op = "PLUS" -> IF nums THEN OpOk(NumV(a[2] + b[2]))
                        ELSE IF a[1] = "str" /\ b[1] = "str" THEN OpOk(StrV(a[2] \o b[2]))
                        ELSE OpTypeError(op)
      [] op = "MINUS" -> IF nums THEN OpOk(NumV(a[2] - b[2])) ELSE OpTypeError(op)
      [] op = "MUL"   -> IF nums THEN OpOk(NumV(a[2] * b[2])) ELSE OpTypeError(op)
      [] op = "DIV"   -> IF nums THEN OpOk(Div(a[2], b[2])) ELSE OpTypeError(op)
      [] op = "MOD"   -> IF nums THEN OpOk(Mod(a[2], b[2])) ELSE OpTypeError(op)
      [] op = "LT"    -> IF nums THEN OpOk(BoolV(a[2] < b[2])) ELSE OpTypeError(op)
      [] op = "GT"    -> IF nums THEN OpOk(BoolV(a[2] > b[2])) ELSE OpTypeError(op)
      [] op = "LE"    -> IF nums THEN OpOk(BoolV(a[2] <= b[2])) ELSE OpTypeError(op)
      [] op = "GE"    -> IF nums THEN OpOk(BoolV(a[2] >= b[2])) ELSE OpTypeError(op)

(***************************************************************************)
(* The tree-walking evaluator: VM.eval_gen and the handlers it dispatches  *)
(* to.  w.gens is the heap of generator objects made by calls of async     *)
(* functions: [func, scope, state], state "new", "running" or "done".      *)
(***************************************************************************)
RECURSIVE eval_gen(_, _, _)
RECURSIVE EvalBlock(_, _, _, _, _)
RECURSIVE EvalArgs(_, _, _, _, _)
RECURSIVE DriveGen(_, _, _)
RECURSIVE WhileLoop(_, _, _, _)
RECURSIVE ForLoop(_, _, _, _)
RECURSIVE ForInLoop(_, _, _, _, _, _)

\* for stmt in block: result = yield from self.eval_gen(stmt, scope)
EvalBlock(block, i, last, sc, w) ==
    IF i > Len(block) THEN Normal(last, sc, w)
    ELSE LET c == eval_gen(block[i], sc, w) IN
         IF c.k # "normal" THEN [c EXCEPT !.r = last]
         ELSE EvalBlock(block, i + 1, c.v, c.sc, c.w)

\* for arg in args_nodes: args.append((yield from self.eval_gen(arg, scope)))
\* a normal completion carries the list of argument values in v
EvalArgs(nodes, i, acc, sc, w) ==
    IF i > Len(nodes) THEN Normal(acc, sc, w)
    ELSE LET c == eval_gen(nodes[i], sc, w) IN
         IF c.k # "normal" THEN c
         ELSE EvalArgs(nodes, i + 1, Append(acc, c.v), c.sc, c.w)

\* an exhausted generator that starts its body again when driven
DriveGen_runs_body_again(id, sc, w) ==
    LET g == w.gens[id] IN
    CASE g.state = "running" -> HostError("generator already executing", sc, w)
      [] g.state \in {"new", "done"} ->
           LET w1 == [w EXCEPT !.gens[id].state = "running"]
               b  == EvalBlock(g.func[4], 1, None, g.scope, w1)
               w2 == [b.w EXCEPT !.gens[id].state = "done", !.gens[id].scope = b.sc]
           IN  IF b.k \in {"normal", "return"} THEN Normal(b.v, sc, w2)
               ELSE Completion(b.k, b.v, sc, w2)

\* `yield from g` on the generator object g = async_body_runner(): a new
\* generator runs the body of the async function in its local scope; an
\* exhausted one yields None at once.
DriveGen(id, sc, w) ==
    LET g == w.gens[id] IN
    CASE g.state = "done" -> Normal(None, sc, w)
      [] g.state = "running" -> HostError("generator already executing", sc, w)
      [] g.state = "new" ->
           LET w1 == [w EXCEPT !.gens[id].state = "running"]
               b  == EvalBlock(g.func[4], 1, None, g.scope, w1)
               w2 == [b.w EXCEPT !.gens[id].state = "done", !.gens[id].scope = b.sc]
           IN  IF b.k \in {"normal", "return"} THEN Normal(b.v, sc, w2)
               ELSE Completion(b.k, b.v, sc, w2)

_eval_num(node, sc, w) == Normal(NumV(node[2]), sc, w)
_eval_str(node, sc, w) == Normal(StrV(node[2]), sc, w)
_eval_null(node, sc, w) == Normal(None, sc, w)

_eval_var(node, sc, w) ==
    IF Has(sc, node[2]) THEN Normal(sc[node[2]], sc, w)
    ELSE HexzaError("Variable '" \o node[2] \o "' is not defined", sc, w)

_eval_binop(node, sc, w) ==
    LET l == eval_gen(node[3], sc, w) IN
    IF l.k # "normal" THEN l ELSE
    LET r == eval_gen(node[4], l.sc, l.w) IN
    IF r.k # "normal" THEN r ELSE
    IF node[2] \notin BinOpNames
    THEN HexzaError("Unknown binary operator: " \o node[2], r.sc, r.w)
    ELSE LET res == ApplyBinOp(node[2], l.v, r.v) IN
         IF res.ok THEN Normal(res.v, r.sc, r.w)
         ELSE HostError(res.v[2], r.sc, r.w)

\* local_scope = func.closure.copy(); local_scope[param] = args[i] or None
RECURSIVE BindParams(_, _, _, _)
\* parameters beyond the arguments are left unbound
BindParams_missing_unbound(local, params, args, i) ==
    IF i > Len(params) THEN local
    ELSE BindParams(IF i <= Len(args) THEN SetItem(local, params[i], args[i]) ELSE local,
                    params, args, i + 1)

BindParams(local, params, args, i) ==
    IF i > Len(params) THEN local
    ELSE BindParams(SetItem(local, params[i], IF i <= Len(args) THEN args[i] ELSE None),
                    params, args, i + 1)

_eval_call(node, sc, w) ==
    LET f == eval_gen(node[2], sc, w) IN
    IF f.k # "normal" THEN f ELSE
    LET a == EvalArgs(node[3], 1, <<>>, f.sc, f.w) IN
    IF a.k # "normal" THEN a ELSE
    LET func == f.v
        args == a.v
    IN
    IF IsFunc(func) THEN
        LET local_scope == BindParams(Copy(func[5]), func[3], args, 1) IN
        IF func[6]
        THEN \* async: return async_body_runner(), a generator not yet started
             LET id == Len(a.w.gens) + 1
                 w1 == [a.w EXCEPT !.gens = Append(@, [func |-> func,
                                                        scope |-> local_scope,
                                                        state |-> "new"])]
             IN  Normal(GenV(id), a.sc, w1)
        ELSE \* sync: run the body; only ReturnException is caught here
             LET b == EvalBlock(func[4], 1, None, local_scope, a.w) IN
             IF b.k \in {"normal", "return"} THEN Normal(b.v, a.sc, b.w)
             ELSE Completion(b.k, b.v, a.sc, b.w)
    ELSE IF IsHost(func) THEN
        LET h == CallHost(func[2], args, a.w.out)
            w1 == [a.w EXCEPT !.out = h.out]
        IN  CASE h.exc = "" -> Normal(h.v, a.sc, w1)
              [] h.exc = "TypeError" ->
                   HexzaError("Function call error: " \o h.v[2], a.sc, w1)
              [] OTHER -> HostError(h.v[2], a.sc, w1)
    ELSE IF func[1] = "class" THEN
        \* callable(func): HexzaClass.__call__ without vm, __init__ is not run
        Normal(HexzaInstance(func), a.sc, a.w)
    ELSE HexzaError("Cannot call non-function object: " \o TypeName(func), a.sc, a.w)

\* the await that hands the generator on without driving it
_eval_await_undriven(node, sc, w) == eval_gen(node[2], sc, w)

_eval_await(node, sc, w) ==
    LET task == eval_gen(node[2], sc, w) IN
    IF task.k # "normal" THEN task
    ELSE IF IsGen(task.v) THEN DriveGen(task.v[2], task.sc, task.w)
    ELSE task

_eval_assign(node, sc, w) ==
    LET value == eval_gen(node[3], sc, w) IN
    IF value.k # "normal" THEN value
    ELSE IF node[2][1] = "var"
         THEN Normal(value.v, SetItem(value.sc, node[2][2], value.v), value.w)
    ELSE IF node[2][1] = "member"
         THEN \* of the member targets only the global namespace is modelled:
              \* setattr(obj, member, value) stores into VM.global_scope
              LET obj == eval_gen(node[2][2], value.sc, value.w) IN
              IF obj.k # "normal" THEN obj
              ELSE IF obj.v = GlobalNamespace
                   THEN Normal(value.v, obj.sc,
                               [obj.w EXCEPT !.globals = SetItem(@, node[2][3], value.v)])
              ELSE HostError("AttributeError: '" \o TypeName(obj.v)
                                 \o "' object has no attribute '" \o node[2][3] \o "'",
                             obj.sc, obj.w)
    ELSE HexzaError("Invalid assignment target: " \o node[2][1], value.sc, value.w)

_eval_var_decl(node, sc, w) ==
    LET value == IF node[4] # <<>> THEN eval_gen(node[4], sc, w) ELSE Normal(None, sc, w) IN
    IF value.k # "normal" THEN value
    ELSE IF node[2] = "const"
         THEN \* scope[name] = value; scope['__consts__'] = set(); .add(name)
              Normal(value.v,
                     SetItem(SetItem(value.sc, node[3], value.v), "__consts__", SetV({node[3]})),
                     value.w)
         ELSE Normal(value.v, SetItem(value.sc, node[3], value.v), value.w)

_eval_if(node, sc, w) ==
    LET cond_val == eval_gen(node[2], sc, w) IN
    IF cond_val.k # "normal" THEN cond_val
    ELSE IF Truthy(cond_val.v) THEN EvalBlock(node[3], 1, None, cond_val.sc, cond_val.w)
    ELSE IF node[4] # <<>> THEN EvalBlock(node[4], 1, None, cond_val.sc, cond_val.w)
    ELSE Normal(None, cond_val.sc, cond_val.w)

\* while (yield from eval_gen(condition)): try: body
\*    except BreakException: break / except ContinueException: continue
WhileLoop(node, res, sc, w) ==
    LET c == eval_gen(node[2], sc, w) IN
    IF c.k # "normal" THEN c
    ELSE IF ~Truthy(c.v) THEN Normal(res, c.sc, c.w)
    ELSE LET b == EvalBlock(node[3], 1, res, c.sc, c.w) IN
         CASE b.k = "normal"   -> WhileLoop(node, b.v, b.sc, b.w)
           [] b.k = "break"    -> Normal(b.r, b.sc, b.w)
           [] b.k = "continue" -> WhileLoop(node, b.r, b.sc, b.w)
           [] OTHER            -> b

_eval_while(node, sc, w) == WhileLoop(node, None, sc, w)

\* a C-style for loop whose `continue` goes straight back to the condition
\* (the handling _eval_while has), without evaluating inc
ForLoop_continue_skips_inc(node, res, sc, w) ==
    LET c == IF node[3] # <<>> THEN eval_gen(node[3], sc, w)
             ELSE Normal(BoolV(TRUE), sc, w) IN
    IF c.k # "normal" THEN c
    ELSE IF ~Truthy(c.v) THEN Normal(res, c.sc, c.w)
    ELSE LET b == EvalBlock(node[5], 1, res, c.sc, c.w) IN
         CASE b.k = "break" -> Normal(b.r, b.sc, b.w)
           [] b.k = "continue" -> ForLoop(node, b.r, b.sc, b.w)
           [] b.k = "normal" ->
                LET i == IF node[4] # <<>> THEN eval_gen(node[4], b.sc, b.w)
                         ELSE Normal(None, b.sc, b.w)
                IN  IF i.k # "normal" THEN i
                    ELSE ForLoop(node, b.v, i.sc, i.w)
           [] OTHER -> b

\* the `while True:` of _eval_for: test cond, run the body, evaluate inc
ForLoop(node, res, sc, w) ==
    LET c == IF node[3] # <<>> THEN eval_gen(node[3], sc, w)
             ELSE Normal(BoolV(TRUE), sc, w) IN
    IF c.k # "normal" THEN c
    ELSE IF ~Truthy(c.v) THEN Normal(res, c.sc, c.w)
    ELSE LET b == EvalBlock(node[5], 1, res, c.sc, c.w) IN
         CASE b.k = "break" -> Normal(b.r, b.sc, b.w)
           [] b.k \in {"normal", "continue"} ->
                LET r1 == IF b.k = "normal" THEN b.v ELSE b.r
                    i  == IF node[4] # <<>> THEN eval_gen(node[4], b.sc, b.w)
                          ELSE Normal(None, b.sc, b.w)
                IN  IF i.k # "normal" THEN i
                    ELSE ForLoop(node, r1, i.sc, i.w)
           [] OTHER -> b

_eval_for(node, sc, w) ==
    LET init == IF node[2] # <<>> THEN eval_gen(node[2], sc, w)
                ELSE Normal(None, sc, w) IN
    IF init.k # "normal" THEN init
    ELSE ForLoop(node, None, init.sc, init.w)

\* for item in iterable: scope[var_name] = item; try: body ...
ForInLoop(node, items, i, res, sc, w) ==
    IF i > Len(items) THEN Normal(res, sc, w)
    ELSE LET sc1 == SetItem(sc, node[2], items[i])
             b   == EvalBlock(node[4], 1, res, sc1, w)
         IN  CASE b.k = "normal"   -> ForInLoop(node, items, i + 1, b.v, b.sc, b.w)
               [] b.k = "break"    -> Normal(b.r, b.sc, b.w)
               [] b.k = "continue" -> ForInLoop(node, items, i + 1, b.r, b.sc, b.w)
               [] OTHER            -> b

_eval_for_in(node, sc, w) ==
    LET iterable == eval_gen(node[3], sc, w) IN
    IF iterable.k # "normal" THEN iterable
    ELSE IF iterable.v[1] = "list"
         THEN ForInLoop(node, iterable.v[2], 1, None, iterable.sc, iterable.w)
         ELSE HostError("'" \o TypeName(iterable.v) \o "' object is not iterable",
                        iterable.sc, iterable.w)

\* func = HexzaFunction(name, params, body, scope.copy(), is_async)
\* scope[name] = func: the closure is copied before the name is bound
_eval_func_def(node, sc, w) ==
    LET func == HexzaFunction(node[2], node[3], node[4], Copy(sc), node[5]) IN
    Normal(func, SetItem(sc, node[2], func), w)

_eval_return(node, sc, w) ==
    LET value == IF node[2] # <<>> THEN eval_gen(node[2], sc, w)
                 ELSE Normal(None, sc, w) IN
    IF value.k # "normal" THEN value
    ELSE ReturnException(value.v, value.sc, value.w)

_eval_break(node, sc, w) == BreakException(sc, w)
_eval_continue(node, sc, w) == ContinueException(sc, w)
_eval_expr(node, sc, w) == eval_gen(node[2], sc, w)

_eval_throw(node, sc, w) ==
    LET value == eval_gen(node[2], sc, w) IN
    IF value.k # "normal" THEN value
    ELSE HexzaError(PyStr(value.v), value.sc, value.w)

\* a try statement whose finally block runs only after a try/catch part
\* that completed normally (finally_block after, not in, a finally clause)
_eval_try_catch_finally_on_success(node, sc, w) ==
    LET t == EvalBlock(node[2], 1, None, sc, w)
        mid == IF t.k = "normal" THEN t
               ELSE IF node[4] # <<>> /\ node[3] # ""
                    THEN EvalBlock(node[4], 1, t.r,
                                   SetItem(t.sc, node[3], StrV(StrOfException(t))), t.w)
                    ELSE Normal(t.r, t.sc, t.w)
        fin == IF node[5] # <<>> /\ mid.k = "normal"
               THEN EvalBlock(node[5], 1, None, mid.sc, mid.w)
               ELSE Normal(None, mid.sc, mid.w)
    IN  IF fin.k # "normal" THEN fin
        ELSE [mid EXCEPT !.sc = fin.sc, !.w = fin.w]

\* a try statement that discards an exception raised by its finally block
_eval_try_catch_finally_swallowed(node, sc, w) ==
    LET t == EvalBlock(node[2], 1, None, sc, w)
        mid == IF t.k = "normal" THEN t
               ELSE IF node[4] # <<>> /\ node[3] # ""
                    THEN EvalBlock(node[4], 1, t.r,
                                   SetItem(t.sc, node[3], StrV(StrOfException(t))), t.w)
                    ELSE Normal(t.r, t.sc, t.w)
        fin == IF node[5] # <<>>
               THEN EvalBlock(node[5], 1, None, mid.sc, mid.w)
               ELSE Normal(None, mid.sc, mid.w)
    IN  [mid EXCEPT !.sc = fin.sc, !.w = fin.w]

\* try: try_block / except Exception as e: (catch) / finally: finally_block
\* Return/Break/ContinueException derive from Exception, so the except
\* clause receives them as it receives errors.
_eval_try_catch(node, sc, w) ==
    LET try_block == node[2]
        error_var == node[3]
        catch_block == node[4]
        finally_block == node[5]
        t == EvalBlock(try_block, 1, None, sc, w)
        \* the completion after the try/except part, before finally
        mid == IF t.k = "normal" THEN t
               ELSE IF catch_block # <<>> /\ error_var # ""
                    THEN EvalBlock(catch_block, 1, t.r,
                                   SetItem(t.sc, error_var, StrV(StrOfException(t))), t.w)
                    ELSE Normal(t.r, t.sc, t.w)
        fin == IF finally_block # <<>>
               THEN EvalBlock(finally_block, 1, None, mid.sc, mid.w)
               ELSE Normal(None, mid.sc, mid.w)
    IN  IF fin.k # "normal" THEN fin
        ELSE [mid EXCEPT !.sc = fin.sc, !.w = fin.w]

\* HexzaClass.get_method: the class's own methods first, then the base's
RECURSIVE get_method(_, _)
get_method(cls, method_name) ==
    IF method_name \in DOMAIN cls[4] THEN cls[4][method_name]
    ELSE IF cls[3] # None THEN get_method(cls[3], method_name)
    ELSE None

\* methods_dict[method_name] = HexzaFunction(method_name, params, body, scope.copy())
RECURSIVE MethodsDict(_, _, _, _)
MethodsDict(methods, i, sc, acc) ==
    IF i > Len(methods) THEN acc
    ELSE MethodsDict(methods, i + 1, sc,
                     SetItem(acc, methods[i][2],
                             HexzaFunction(methods[i][2], methods[i][3], methods[i][4],
                                           Copy(sc), FALSE)))

\* node = ("class_def", name, base, methods); base is "" when absent.  A
\* base name that is not bound in the scope gives a class without a base.
_eval_class_def(node, sc, w) ==
    LET base_class == IF node[3] # "" /\ Has(sc, node[3]) THEN sc[node[3]] ELSE None
        cls == HexzaClass(node[2], base_class, MethodsDict(node[4], 1, sc, EmptyDict))
    IN  Normal(cls, SetItem(sc, node[2], cls), w)

\* the loop of HexzaClass.__call__ over the body of __init__: each statement
\* goes through vm.eval, which absorbs a return; any other exception ends
\* the loop silently (`except Exception: pass`)
RECURSIVE InitBody(_, _, _, _)
InitBody(body, i, local, w) ==
    IF i > Len(body) THEN w
    ELSE LET c == eval_gen(body[i], local, w) IN
         IF c.k \in {"normal", "return"} THEN InitBody(body, i + 1, c.sc, c.w)
         ELSE c.w

\* HexzaClass.__call__(*args, vm=self)
ClassCall(cls, args, w) ==
    LET instance == HexzaInstance(cls)
        init_method == get_method(cls, "__init__")
    IN  IF init_method # None
        THEN [v |-> instance,
              w |-> InitBody(init_method[4], 1,
                             BindParams(SetItem(Copy(init_method[5]), "__hexza_self__", instance),
                                        init_method[3], args, 1), w)]
        ELSE [v |-> instance, w |-> w]

\* node = ("new", class_name, args)
_eval_new(node, sc, w) ==
    IF ~Has(sc, node[2]) THEN HostError("KeyError: '" \o node[2] \o "'", sc, w)
    ELSE LET cls == sc[node[2]]
             a == EvalArgs(node[3], 1, <<>>, sc, w)
         IN  IF a.k # "normal" THEN a
             ELSE IF cls[1] = "class"
                  THEN LET c == ClassCall(cls, a.v, a.w) IN Normal(c.v, a.sc, c.w)
                  ELSE \* not a class: the keyword argument vm is rejected
                       HostError("TypeError: unexpected keyword argument 'vm'", a.sc, a.w)

\* node = ("member", obj_expr, member).  For an instance: an entry of its
\* __dict__ (only __hexza_class__ here), else the method found by
\* get_method, bound to the instance through a copy of its closure, else
\* null.  For a list only `length` is modelled.
_eval_member(node, sc, w) ==
    LET o == eval_gen(node[2], sc, w) IN
    IF o.k # "normal" THEN o
    ELSE LET obj == o.v
             member == node[3]
         IN  IF obj[1] = "instance"
             THEN IF member = "__hexza_class__" THEN Normal(obj[2], o.sc, o.w)
                  ELSE LET method == get_method(obj[2], member) IN
                       IF method # None
                       THEN Normal(HexzaFunction(method[2], method[3], method[4],
                                                 SetItem(Copy(method[5]), "__hexza_self__", obj),
                                                 method[6]),
                                   o.sc, o.w)
                       ELSE Normal(None, o.sc, o.w)
             ELSE IF obj[1] = "dict"         \* obj.get(member)
                  THEN Normal(IF Has(obj[2], member) THEN obj[2][member] ELSE None, o.sc, o.w)
             ELSE IF obj[1] = "list" /\ member = "length"
                  THEN Normal(NumV(Len(obj[2])), o.sc, o.w)
             ELSE IF obj = GlobalNamespace   \* __getattr__: self._scope.get(name)
                  THEN Normal(IF Has(o.w.globals, member) THEN o.w.globals[member] ELSE None,
                              o.sc, o.w)
             ELSE Normal(None, o.sc, o.w)        \* getattr(obj, member, None)

_eval_this(node, sc, w) ==
    Normal(IF Has(sc, "__hexza_self__") THEN sc["__hexza_self__"] ELSE None, sc, w)

\* node = ("obj", pairs), a pair being <<key, value_expr>>
RECURSIVE ObjPairs(_, _, _, _, _)
ObjPairs(pairs, i, acc, sc, w) ==
    IF i > Len(pairs) THEN Normal(DictV(acc), sc, w)
    ELSE LET c == eval_gen(pairs[i][2], sc, w) IN
         IF c.k # "normal" THEN c
         ELSE ObjPairs(pairs, i + 1, SetItem(acc, pairs[i][1], c.v), c.sc, c.w)

_eval_obj(node, sc, w) == ObjPairs(node[2], 1, EmptyDict, sc, w)

\* the loop of _eval_api_def over the route nodes: a route whose handler
\* name is unbound or is not a HexzaFunction is skipped; the others are
\* stored in api_handlers and registered with the web application
RECURSIVE RegisterRoutes(_, _, _, _)
RegisterRoutes(routes_nodes, i, sc, routes) ==
    IF i > Len(routes_nodes) THEN routes
    ELSE LET route_node == routes_nodes[i] IN
         IF route_node[1] # "route" \/ ~Has(sc, route_node[4]) \/ ~IsFunc(sc[route_node[4]])
         THEN RegisterRoutes(routes_nodes, i + 1, sc, routes)
         ELSE RegisterRoutes(routes_nodes, i + 1, sc,
                             Append(routes, [method |-> route_node[2], path |-> route_node[3],
                                             handler_func |-> sc[route_node[4]]]))

\* node = ("api_def", name, routes).  With enable_web the web application
\* is created on first use; without one the definition is only reported.
\* (The messages go to the process's stdout, not to the output buffer.)
_eval_api_def(node, sc, w) ==
    LET w1 == IF w.enable_web /\ ~w.web_app THEN [w EXCEPT !.web_app = TRUE] ELSE w IN
    IF ~w1.web_app THEN Normal(None, sc, w1)
    ELSE Normal(None, sc, [w1 EXCEPT !.routes = RegisterRoutes(node[3], 1, sc, @)])

_eval_program(node, sc, w) == EvalBlock(node[2], 1, None, sc, w)

\* handlers that are plain functions (no yield): their return value is what
\* eval_gen tests with inspect.isgenerator
PlainHandlers == {"num", "str", "null", "var", "func_def", "class_def", "this", "break",
                  "continue", "api_def"}

Dispatch(node, sc, w) ==
    CASE node[1] = "num"       -> _eval_num(node, sc, w)
      [] node[1] = "str"       -> _eval_str(node, sc, w)
      [] node[1] = "null"      -> _eval_null(node, sc, w)
      [] node[1] = "var"       -> _eval_var(node, sc, w)
      [] node[1] = "binop"     -> _eval_binop(node, sc, w)
      [] node[1] = "call"      -> _eval_call(node, sc, w)
      [] node[1] = "await"     -> _eval_await(node, sc, w)
      [] node[1] = "assign"    -> _eval_assign(node, sc, w)
      [] node[1] = "var_decl"  -> _eval_var_decl(node, sc, w)
      [] node[1] = "if"        -> _eval_if(node, sc, w)
      [] node[1] = "while"     -> _eval_while(node, sc, w)
      [] node[1] = "for"       -> _eval_for(node, sc, w)
      [] node[1] = "for_in"    -> _eval_for_in(node, sc, w)
      [] node[1] = "func_def"  -> _eval_func_def(node, sc, w)
      [] node[1] = "class_def" -> _eval_class_def(node, sc, w)
      [] node[1] = "new"       -> _eval_new(node, sc, w)
      [] node[1] = "member"    -> _eval_member(node, sc, w)
      [] node[1] = "this"      -> _eval_this(node, sc, w)
      [] node[1] = "obj"       -> _eval_obj(node, sc, w)
      [] node[1] = "api_def"   -> _eval_api_def(node, sc, w)
      [] node[1] = "return"    -> _eval_return(node, sc, w)
      [] node[1] = "break"     -> _eval_break(node, sc, w)
      [] node[1] = "continue"  -> _eval_continue(node, sc, w)
      [] node[1] = "expr"      -> _eval_expr(node, sc, w)
      [] node[1] = "try_catch" -> _eval_try_catch(node, sc, w)
      [] node[1] = "throw"     -> _eval_throw(node, sc, w)
      [] node[1] = "program"   -> _eval_program(node, sc, w)
      [] OTHER -> HostError("Unknown node type: " \o node[1], sc, w)

\* res = handler(node, scope); if inspect.isgenerator(res): yield from res.
\* A generator-function handler is driven to its return value; a plain
\* handler that returns a generator object (a variable bound to a suspended
\* computation) has that object driven in the same way.
YieldFrom(node, res) ==
    IF node[1] \in PlainHandlers /\ res.k = "normal" /\ IsGen(res.v)
    THEN DriveGen(res.v[2], res.sc, res.w)
    ELSE res

eval_gen(node, sc, w) ==
    IF node = <<>> THEN Normal(None, sc, w)
    ELSE YieldFrom(node, Dispatch(node, sc, w))

(***************************************************************************)
(* AST nodes as the Parser builds them (tag first; trailing source         *)
(* positions and type annotations, which the evaluator never reads, are    *)
(* left out).                                                              *)
(***************************************************************************)
Num(n)    == <<"num", n>>
Str(s)    == <<"str", s>>
Var(name) == <<"var", name>>
BinOp(op, left, right) == <<"binop", op, left, right>>
Call(f, args) == <<"call", f, args>>
Await(operand) == <<"await", operand>>
Assign(name, value) == <<"assign", Var(name), value>>
VarDecl(kind, name, init_value) == <<"var_decl", kind, name, init_value>>
If(condition, true_block, false_block) == <<"if", condition, true_block, false_block>>
While(condition, body) == <<"while", condition, body>>
For(init, cond, inc, body) == <<"for", init, cond, inc, body>>
ForIn(var_name, iterable, body) == <<"for_in", var_name, iterable, body>>
FuncDef(name, params, body, is_async) == <<"func_def", name, params, body, is_async>>
Return(value) == <<"return", value>>
Break    == <<"break">>
Continue == <<"continue">>
ExprStmt(expr) == <<"expr", expr>>
TryCatch(try_block, error_var, catch_block, finally_block) ==
    <<"try_catch", try_block, error_var, catch_block, finally_block>>
Throw(value) == <<"throw", value>>
Program(statements) == <<"program", statements>>

\* shorthands for statements of the programs below
CallStmt(name, args) == ExprStmt(Call(Var(name), args))
Emit(s)     == CallStmt("print", <<Str(s)>>)
EmitVar(x)  == CallStmt("print", <<Var(x)>>)
Incr(x)     == Assign(x, BinOp("PLUS", Var(x), Num(1)))

\* VM._create_builtins: the initial global scope
Obj(pairs) == <<"obj", pairs>>
ApiDef(name, routes) == <<"api_def", name, routes>>
Route(method, path, handler_name) == <<"route", method, path, handler_name>>
ClassDef(name, base, methods) == <<"class_def", name, base, methods>>
New(class_name, args) == <<"new", class_name, args>>
Member(obj, member) == <<"member", obj, member>>

(***************************************************************************)
(* The parser, for token streams made of let, =, new, identifiers, ( ) .   *)
(* , and ; tokens.  A token is <<type, value>>.  A parse result is         *)
(* [ok, node, pos, msg]: the node and the position after it, or the text   *)
(* of the SyntaxError.  None of the binary or ternary operator tokens      *)
(* occurs in these streams, so the precedence chain from parse_ternary     *)
(* down to parse_power hands parse_unary's result through unchanged.       *)
(***************************************************************************)
Tok(type, value) == <<type, value>>
ParseOk(node, pos) == [ok |-> TRUE, node |-> node, pos |-> pos, msg |-> ""]
SyntaxError(msg)   == [ok |-> FALSE, node |-> <<>>, pos |-> 0, msg |-> msg]

peek(tokens, pos) == IF pos <= Len(tokens) THEN tokens[pos] ELSE Tok("EOF", "")

\* consume(expected_type): "" stands for no expected type
consume(tokens, pos, expected_type) ==
    LET token == peek(tokens, pos) IN
    IF token[1] = "EOF" THEN SyntaxError("Unexpected end of file")
    ELSE IF expected_type # "" /\ token[1] # expected_type
         THEN SyntaxError("Expected " \o expected_type \o ", got " \o token[1])
    ELSE ParseOk(token, pos + 1)

RECURSIVE parse_expression(_, _)
RECURSIVE parse_unary(_, _)
RECURSIVE parse_new(_, _)
RECURSIVE parse_postfix(_, _)
RECURSIVE PostfixLoop(_, _, _)
RECURSIVE parse_primary(_, _)
RECURSIVE ParseArgs(_, _, _)

parse_expression(tokens, pos) == parse_unary(tokens, pos)

\* parse_unary returns parse_new's node as it is: no postfix operator is
\* applied to a `new` expression
parse_unary(tokens, pos) ==
    IF peek(tokens, pos)[1] = "NEW" THEN parse_new(tokens, pos)
    ELSE parse_postfix(tokens, pos)

\* while peek().type != RP: args.append(parse_expression()); skip a comma
ParseArgs(tokens, pos, args) ==
    LET Next_arg(a) ==
          IF ~a.ok THEN a
          ELSE ParseArgs(tokens, IF peek(tokens, a.pos)[1] = "COMMA" THEN a.pos + 1 ELSE a.pos,
                         Append(args, a.node))
    IN  IF peek(tokens, pos)[1] = "RP" THEN ParseOk(args, pos)
        ELSE Next_arg(parse_expression(tokens, pos))

\* consume(NEW); class_name = consume(IDENTIFIER); consume(LP); args; consume(RP)
parse_new(tokens, pos) ==
    LET Node(class_name, args, rp) ==
          IF ~rp.ok THEN rp ELSE ParseOk(New(class_name.node[2], args.node), rp.pos)
        Rp(class_name, args) ==
          IF ~args.ok THEN args
          ELSE Node(class_name, args, consume(tokens, args.pos, "RP"))
        Args(class_name, lp) ==
          IF ~lp.ok THEN lp ELSE Rp(class_name, ParseArgs(tokens, lp.pos, <<>>))
        Lp(class_name) ==
          IF ~class_name.ok THEN class_name
          ELSE Args(class_name, consume(tokens, class_name.pos, "LP"))
        Name(n) == IF ~n.ok THEN n ELSE Lp(consume(tokens, n.pos, "IDENTIFIER"))
    IN  Name(consume(tokens, pos, "NEW"))

\* the loop of parse_postfix: calls and member accesses applied to left
PostfixLoop(tokens, pos, left) ==
    LET CallRp(args, rp) ==
          IF ~rp.ok THEN rp ELSE PostfixLoop(tokens, rp.pos, Call(left, args.node))
        CallArgs(args) ==
          IF ~args.ok THEN args ELSE CallRp(args, consume(tokens, args.pos, "RP"))
        MemberName(member) ==
          IF ~member.ok THEN member
          ELSE PostfixLoop(tokens, member.pos, Member(left, member.node[2]))
    IN  CASE peek(tokens, pos)[1] = "LP" -> CallArgs(ParseArgs(tokens, pos + 1, <<>>))
          [] peek(tokens, pos)[1] = "DOT" ->
               MemberName(consume(tokens, pos + 1, "IDENTIFIER"))
          [] OTHER -> ParseOk(left, pos)

parse_postfix(tokens, pos) ==
    LET Postfix(left) ==
          IF ~left.ok THEN left ELSE PostfixLoop(tokens, left.pos, left.node)
    IN  Postfix(parse_primary(tokens, pos))

parse_primary(tokens, pos) ==
    LET Close(expr, rp) == IF ~rp.ok THEN rp ELSE ParseOk(expr.node, rp.pos)
        Paren(expr) ==
          IF ~expr.ok THEN expr ELSE Close(expr, consume(tokens, expr.pos, "RP"))
        Primary(token) ==
          CASE token[1] = "EOF" -> SyntaxError("Unexpected end of file")
            [] token[1] = "IDENTIFIER" -> ParseOk(Var(token[2]), pos + 1)
            [] token[1] = "LP" -> Paren(parse_expression(tokens, pos + 1))
            [] OTHER -> SyntaxError("Unexpected token: " \o token[1])
    IN  Primary(peek(tokens, pos))

\* let name = init_value  (no type annotation in these streams)
parse_var_declaration(tokens, pos, kind) ==
    LET Decl(name_token, init_value) ==
          IF ~init_value.ok THEN init_value
          ELSE ParseOk(VarDecl(kind, name_token.node[2], init_value.node), init_value.pos)
        Init_value(name_token) ==
          IF ~name_token.ok THEN name_token
          ELSE IF peek(tokens, name_token.pos)[1] = "EQ"
               THEN Decl(name_token, parse_expression(tokens, name_token.pos + 1))
          ELSE ParseOk(VarDecl(kind, name_token.node[2], <<>>), name_token.pos)
    IN  Init_value(consume(tokens, pos + 1, "IDENTIFIER"))

\* the statement kinds of these streams: a let declaration, else an
\* expression, which followed by = is the target of an assignment
parse_statement(tokens, pos) ==
    LET Assignment(expr, value) ==
          IF ~value.ok THEN value
          ELSE ParseOk(<<"assign", expr.node, value.node>>, value.pos)
        Statement(expr) ==
          IF ~expr.ok THEN expr
          ELSE IF peek(tokens, expr.pos)[1] = "EQ"
               THEN Assignment(expr, parse_expression(tokens, expr.pos + 1))
          ELSE ParseOk(ExprStmt(expr.node), expr.pos)
    IN  IF peek(tokens, pos)[1] = "LET" THEN parse_var_declaration(tokens, pos, "let")
        ELSE Statement(parse_expression(tokens, pos))

RECURSIVE SkipSemis(_, _)
SkipSemis(tokens, pos) ==
    IF peek(tokens, pos)[1] = "SEMI" THEN SkipSemis(tokens, pos + 1) ELSE pos

\* Parser.parse: statements until EOF, semicolons skipped after each; the
\* node of the result is the list of statements
RECURSIVE parse(_, _, _)
parse(tokens, pos, statements) ==
    LET Statements(stmt) ==
          IF ~stmt.ok THEN stmt
          ELSE parse(tokens, SkipSemis(tokens, stmt.pos), Append(statements, stmt.node))
    IN  IF peek(tokens, pos)[1] = "EOF" THEN ParseOk(statements, pos)
        ELSE Statements(parse_statement(tokens, pos))

GlobalScope ==
    [n \in Builtins \cup {"global"} |-> IF n = "global" THEN GlobalNamespace ELSE HostV(n)]

(***************************************************************************)
(* The bytecode path.  An instruction is <<opcode>> or <<opcode, arg>>;    *)
(* the constant pool is indexed from 1 here (from 0 in the source).        *)
(***************************************************************************)
emit(cs, op) == [cs EXCEPT !.instructions = Append(@, op)]

\* add_const: append val unless the pool holds it, return its index
add_const(cs, val) ==
    IF \E i \in 1..Len(cs.constants) : cs.constants[i] = val THEN cs
    ELSE [cs EXCEPT !.constants = Append(@, val)]
ConstIndex(cs, val) ==
    CHOOSE i \in 1..Len(cs.constants) :
        /\ cs.constants[i] = val
        /\ \A j \in 1..(i - 1) : cs.constants[j] # val

BinaryOpcode(op) ==
    CASE op = "PLUS"  -> "BINARY_ADD"
      [] op = "MINUS" -> "BINARY_SUB"
      [] op = "MUL"   -> "BINARY_MUL"
      [] op = "DIV"   -> "BINARY_DIV"
      [] OTHER        -> "BINARY_ADD"       \* ops.get(node[1], OpCode.BINARY_ADD)

RECURSIVE visit(_, _)
RECURSIVE VisitAll(_, _, _)
VisitAll(nodes, i, cs) ==
    IF i > Len(nodes) THEN cs ELSE VisitAll(nodes, i + 1, visit(nodes[i], cs))

visit(node, cs) ==
    IF node = <<>> THEN cs
    ELSE CASE node[1] = "program" -> VisitAll(node[2], 1, cs)
           [] node[1] \in {"num", "str"} ->
                LET cs1 == add_const(cs, <<node[1], node[2]>>) IN
                emit(cs1, <<"LOAD_CONST", ConstIndex(cs1, <<node[1], node[2]>>)>>)
           [] node[1] = "var" -> emit(cs, <<"LOAD_VAR", node[2]>>)
           [] node[1] = "binop" ->
                emit(visit(node[4], visit(node[3], cs)), <<BinaryOpcode(node[2])>>)
           [] node[1] = "assign" ->
                LET cs1 == visit(node[3], cs) IN
                IF node[2][1] = "var" THEN emit(cs1, <<"STORE_VAR", node[2][2]>>) ELSE cs1
           [] node[1] = "call" ->
                IF Len(node) >= 3
                THEN \* the arguments first, then the function
                     emit(visit(node[2], VisitAll(node[3], 1, cs)), <<"CALL", Len(node[3])>>)
                ELSE emit(cs, <<"POP">>)
           [] node[1] = "expr" -> emit(visit(node[2], cs), <<"POP">>)
           [] OTHER -> cs                   \* unsupported node type: skipped

\* BytecodeCompiler.compile
compile(ast) ==
    emit(visit(ast, [instructions |-> <<>>, constants |-> <<>>]), <<"HALT">>)

\* stack.pop() / the N pops of CALL
Top(stack)  == stack[Len(stack)]
Pop(stack)  == SubSeq(stack, 1, Len(stack) - 1)

\* for _ in range(num_args): if self.stack: args.insert(0, self.stack.pop())
RECURSIVE PopArgs(_, _, _)
PopArgs(stack, n, args) ==
    IF n = 0 \/ stack = <<>> THEN [stack |-> stack, args |-> args]
    ELSE PopArgs(Pop(stack), n - 1, <<Top(stack)>> \o args)

\* One iteration of the loop of BytecodeVM.run on the machine m =
\* [ip, stack, st, instructions, constants] with the global table g and the
\* output buffer out; the result is [m, g, out].  st becomes "halted" at
\* HALT and "crashed" when the host raises (pop from an empty list, an
\* operator or a callee raising).
BvmExec(m, g, out) ==
    LET inst == m.instructions[m.ip]
        op == inst[1]
        stack == m.stack
        crash == [m |-> [m EXCEPT !.st = "crashed"], g |-> g, out |-> out]
        go(stk) == [m |-> [m EXCEPT !.stack = stk, !.ip = m.ip + 1], g |-> g, out |-> out]
    IN
    CASE op = "LOAD_CONST" -> go(Append(stack, m.constants[inst[2]]))
      [] op = "LOAD_VAR" -> go(Append(stack, IF Has(g, inst[2]) THEN g[inst[2]] ELSE None))
      [] op = "STORE_VAR" ->
           IF stack = <<>> THEN crash
           ELSE [m |-> [m EXCEPT !.stack = Pop(stack), !.ip = m.ip + 1],
                 g |-> SetItem(g, inst[2], Top(stack)), out |-> out]
      [] op \in {"BINARY_ADD", "BINARY_SUB", "BINARY_MUL", "BINARY_DIV"} ->
           IF Len(stack) < 2 THEN crash
           ELSE LET b == Top(stack)
                    a == Top(Pop(stack))
                    r == ApplyBinOp(CASE op = "BINARY_ADD" -> "PLUS"
                                      [] op = "BINARY_SUB" -> "MINUS"
                                      [] op = "BINARY_MUL" -> "MUL"
                                      [] op = "BINARY_DIV" -> "DIV", a, b)
                IN  IF r.ok THEN go(Append(Pop(Pop(stack)), r.v)) ELSE crash
      [] op = "CALL" ->
           LET p == PopArgs(stack, inst[2], <<>>) IN
           IF p.stack = <<>> THEN go(p.stack)
           ELSE LET func == Top(p.stack)
                    rest == Pop(p.stack)
                IN  IF IsHost(func)
                    THEN LET h == CallHost(func[2], p.args, out) IN
                         IF h.exc # ""
                         THEN [m |-> [m EXCEPT !.st = "crashed", !.stack = rest],
                               g |-> g, out |-> h.out]
                         ELSE [m |-> [m EXCEPT !.ip = m.ip + 1,
                                               !.stack = IF h.v # None THEN Append(rest, h.v)
                                                         ELSE rest],
                               g |-> g, out |-> h.out]
                    ELSE IF IsFunc(func)
                    THEN \* HexzaFunction.__call__ raises TypeError
                         [m |-> [m EXCEPT !.st = "crashed", !.stack = rest], g |-> g, out |-> out]
                    ELSE go(rest)
      [] op = "POP" -> go(IF stack # <<>> THEN Pop(stack) ELSE stack)
      [] op = "HALT" -> [m |-> [m EXCEPT !.st = "halted"], g |-> g, out |-> out]
      [] OTHER -> go(stack)

(***************************************************************************)
(***************************************************************************)
(* HexzaFormatter.  A source text is the sequence of its lines             *)
(* (source.split('\n'); '\n'.join is the inverse on lines, which hold no   *)
(* newline), a line the sequence of its characters.                        *)
(***************************************************************************)
indent_size == 4

IsSpace(c) == c \in {" ", "\t"}

RECURSIVE lstrip(_)
lstrip(line) ==
    IF line # <<>> /\ IsSpace(Head(line)) THEN lstrip(Tail(line)) ELSE line

RECURSIVE rstrip(_)
rstrip(line) ==
    IF line # <<>> /\ IsSpace(line[Len(line)])
    THEN rstrip(SubSeq(line, 1, Len(line) - 1)) ELSE line

\* only the trailing whitespace is removed
strip_right_only(line) == rstrip(line)

\* line.strip()
strip(line) == rstrip(lstrip(line))

startswith(line, c) == line # <<>> /\ line[1] = c
endswith(line, c)   == line # <<>> /\ line[Len(line)] = c

\* " " * (indent_level * self.indent_size)
Indent(indent_level) == [i \in 1..(indent_level * indent_size) |-> " "]

\* the level a line is written at, and the level after it
LevelAt(stripped, indent_level) ==
    IF startswith(stripped, "}") \/ startswith(stripped, "]")
    THEN (IF indent_level - 1 > 0 THEN indent_level - 1 ELSE 0)      \* max(0, level - 1)
    ELSE indent_level
LevelAfter(stripped, level) ==
    IF endswith(stripped, "{") \/ endswith(stripped, "[") THEN level + 1 ELSE level

\* the loop of format over the lines; a blank line is written empty and
\* leaves the level alone
RECURSIVE FormatLines(_, _, _, _)
FormatLines(lines, i, indent_level, formatted_lines) ==
    IF i > Len(lines) THEN formatted_lines
    ELSE LET stripped == strip(lines[i]) IN
         IF stripped = <<>>
         THEN FormatLines(lines, i + 1, indent_level, Append(formatted_lines, <<>>))
         ELSE LET level == LevelAt(stripped, indent_level) IN
              FormatLines(lines, i + 1, LevelAfter(stripped, level),
                          Append(formatted_lines, Indent(level) \o stripped))

format(source) == FormatLines(source, 1, 0, <<>>)

\* the level each line of the source is written at (-1 for a blank line)
RECURSIVE Levels(_, _, _, _)
Levels(lines, i, indent_level, acc) ==
    IF i > Len(lines) THEN acc
    ELSE LET stripped == strip(lines[i]) IN
         IF stripped = <<>> THEN Levels(lines, i + 1, indent_level, Append(acc, 0 - 1))
         ELSE LET level == LevelAt(stripped, indent_level) IN
              Levels(lines, i + 1, LevelAfter(stripped, level), Append(acc, level))

(* Programs.  Each family is a set of sources (given in the comment) with  *)
(* their parameters; Init picks one.                                       *)
(***************************************************************************)

\* func f(){ x = x + 1; }  let x = 0;  f(); ... f();     (order "func_first")
\* let x = 0;  func f(){ x = x + 1; }  f(); ... f();     (order "let_first")
RECURSIVE Repeat(_, _)
Repeat(stmt, n) == IF n = 0 THEN <<>> ELSE <<stmt>> \o Repeat(stmt, n - 1)
RECURSIVE Repeat2(_, _, _)
Repeat2(s1, s2, n) == IF n = 0 THEN <<>> ELSE <<s1, s2>> \o Repeat2(s1, s2, n - 1)

ScopePrograms ==
    { [fam |-> "scope", order |-> o, n |-> n,
       code |-> (IF o = "func_first"
                 THEN <<FuncDef("f", <<>>, <<Incr("x")>>, FALSE), VarDecl("let", "x", Num(0))>>
                 ELSE <<VarDecl("let", "x", Num(0)), FuncDef("f", <<>>, <<Incr("x")>>, FALSE)>>)
                \o Repeat(CallStmt("f", <<>>), n)]
      : o \in {"func_first", "let_first"}, n \in 0..MaxCalls }

\* <kind> NAME = v;  NAME = w;  print(NAME);       kind: const, let, var
ConstPrograms ==
    { [fam |-> "const", kind |-> k, v |-> v, w |-> w,
       code |-> <<VarDecl(k, "NAME", Num(v)), Assign("NAME", Num(w)), EmitVar("NAME")>>]
      : k \in {"const", "let", "var"}, v \in 0..MaxNum, w \in 0..MaxNum }

\* async func f(){ print("body"); return 42; }
\* func g(p){ print("g"); return 1; }
\* <use>  print("pre");  let r = await <operand>;  print(r);
\* use "stmt"  : f();                 operand f()
\*     "arg"   : g(f());              operand f()
\*     "bind"  : let t = f();         operand t
\*     "read"  : let t = f(); t;      operand t
\*     "argvar": let t = f(); g(t);   operand t
\* aw = FALSE leaves out the three statements from print("pre") on
AsyncUse(use) ==
    LET callf == Call(Var("f"), <<>>) IN
    CASE use = "stmt"   -> <<ExprStmt(callf)>>
      [] use = "arg"    -> <<CallStmt("g", <<callf>>)>>
      [] use = "bind"   -> <<VarDecl("let", "t", callf)>>
      [] use = "read"   -> <<VarDecl("let", "t", callf), ExprStmt(Var("t"))>>
      [] use = "argvar" -> <<VarDecl("let", "t", callf), CallStmt("g", <<Var("t")>>)>>

AsyncPrograms ==
    { [fam |-> "async", use |-> u, aw |-> aw,
       code |-> <<FuncDef("f", <<>>, <<Emit("body"), Return(Num(42))>>, TRUE),
                  FuncDef("g", <<"p">>, <<Emit("g"), Return(Num(1))>>, FALSE)>>
                \o AsyncUse(u)
                \o (IF aw
                    THEN <<Emit("pre"),
                           VarDecl("let", "r",
                                   Await(IF u \in {"stmt", "arg"}
                                         THEN Call(Var("f"), <<>>) ELSE Var("t"))),
                           EmitVar("r")>>
                    ELSE <<>>)]
      : u \in {"stmt", "arg", "bind", "read", "argvar"}, aw \in BOOLEAN }

\* async func f(){ print("body"); <return 42; | | throw "boom"; print("b2");> }
\* let t = f();
\* let r = await t;        (body "throw": try { let r = await t; } catch (e) { print("caught"); })
\* s = await t; print(s);  repeated n - 1 times
AwaitAgainPrograms ==
    { [fam |-> "await_again", body |-> b, n |-> n,
       code |-> <<FuncDef("f", <<>>,
                          <<Emit("body")>>
                          \o (CASE b = "return" -> <<Return(Num(42))>>
                                [] b = "none"   -> <<>>
                                [] b = "throw"  -> <<Throw(Str("boom")), Emit("b2")>>),
                          TRUE),
                  VarDecl("let", "t", Call(Var("f"), <<>>)),
                  IF b = "throw"
                  THEN TryCatch(<<VarDecl("let", "r", Await(Var("t")))>>, "e",
                                <<Emit("caught")>>, <<>>)
                  ELSE VarDecl("let", "r", Await(Var("t")))>>
                \o Repeat2(Assign("s", Await(Var("t"))), EmitVar("s"), n - 1)]
      : b \in {"return", "none", "throw"}, n \in 1..MaxAwaits }

\* lines given to VM.eval as one program, as the REPL does:
\*   expr    a + 1;                     var     let x = a; x;
\*   call    print("a"); abs(a);        return  print("a"); return a; print("b");
ReplPrograms ==
    { [fam |-> "repl", kind |-> k, a |-> a,
       code |-> CASE k = "expr"   -> <<ExprStmt(BinOp("PLUS", Num(a), Num(1)))>>
                  [] k = "var"    -> <<VarDecl("let", "x", Num(a)), ExprStmt(Var("x"))>>
                  [] k = "call"   -> <<Emit("a"), CallStmt("abs", <<Num(a)>>)>>
                  [] k = "return" -> <<Emit("a"), Return(Num(a)), Emit("b")>>]
      : k \in {"expr", "var", "call", "return"}, a \in 0..MaxNum }

\* async func f1(){ print("f1"); return v; }
\* async func fi(){ print("fi>"); let a = await f<i-1>(); print("fi<"); return a + 1; }
\*                                                       for i = 2 .. d
\* func g(){ print("g"); return 0; }
\* [let t = fd();]  print("pre");  let r = await <fd() | t> + g();  print("post");
FName(i) == "f" \o ToString(i)

AwaitFunc(i, v) ==
    IF i = 1
    THEN FuncDef(FName(1), <<>>, <<Emit(FName(1)), Return(Num(v))>>, TRUE)
    ELSE FuncDef(FName(i), <<>>,
                 <<Emit(FName(i) \o ">"),
                   VarDecl("let", "a", Await(Call(Var(FName(i - 1)), <<>>))),
                   Emit(FName(i) \o "<"),
                   Return(BinOp("PLUS", Var("a"), Num(1)))>>, TRUE)

AwaitPrograms ==
    { [fam |-> "await", d |-> d, v |-> v, form |-> form,
       code |-> [i \in 1..d |-> AwaitFunc(i, v)]
                \o <<FuncDef("g", <<>>, <<Emit("g"), Return(Num(0))>>, FALSE)>>
                \o (IF form = "bound"
                    THEN <<VarDecl("let", "t", Call(Var(FName(d)), <<>>))>> ELSE <<>>)
                \o <<Emit("pre"),
                     VarDecl("let", "r",
                             BinOp("PLUS",
                                   Await(IF form = "bound" THEN Var("t")
                                         ELSE Call(Var(FName(d)), <<>>)),
                                   Call(Var("g"), <<>>))),
                     Emit("post")>>]
      : d \in 1..MaxDepth, v \in 0..MaxNum, form \in {"direct", "bound"} }

\* print("pre");
\* try { print("t1"); [throw "boom";] print("t2"); }
\* [catch (e) { [print("c"); print(e); [throw "cerr";] print("c2");] }]
\* [finally { print("f"); [throw "ferr";] print("f2"); }]
\* print("after");
\* tryk: "ok", "throw"; catchk: "none", "empty", "ok", "throw";
\* fink: "none", "ok", "throw"
TryStmt(tryk, catchk, fink) ==
    TryCatch(<<Emit("t1")>> \o (IF tryk = "throw" THEN <<Throw(Str("boom"))>> ELSE <<>>)
                 \o <<Emit("t2")>>,
             IF catchk = "none" THEN "" ELSE "e",
             IF catchk \in {"none", "empty"} THEN <<>>
             ELSE <<Emit("c"), EmitVar("e")>>
                  \o (IF catchk = "throw" THEN <<Throw(Str("cerr"))>> ELSE <<>>)
                  \o <<Emit("c2")>>,
             IF fink = "none" THEN <<>>
             ELSE <<Emit("f")>> \o (IF fink = "throw" THEN <<Throw(Str("ferr"))>> ELSE <<>>)
                  \o <<Emit("f2")>>)

TryPrograms ==
    { [fam |-> "try", tryk |-> t, catchk |-> c, fink |-> f,
       code |-> <<Emit("pre"), TryStmt(t, c, f), Emit("after")>>]
      : t \in {"ok", "throw"}, c \in {"none", "empty", "ok", "throw"},
        f \in {"none", "ok", "throw"} }

\* print("c") or i < MaxIter: a loop condition that reports each test
\* (print returns None, so `or` yields the comparison)
LoopCond == BinOp("OR", Call(Var("print"), <<Str("c")>>),
                  BinOp("LT", Var("i"), Num(MaxIter)))
FirstIteration == BinOp("EQEQ", Var("i"), Num(1))

\* a statement placed in a loop body directly, under if blocks, in try
\* blocks, or both
Wrap(wrap, stmt) ==
    CASE wrap = "direct"      -> stmt
      [] wrap = "if"          -> If(FirstIteration, <<stmt>>, <<>>)
      [] wrap = "if_if"       -> If(FirstIteration, <<If(FirstIteration, <<stmt>>, <<>>)>>, <<>>)
      [] wrap = "try_catch"   -> TryCatch(<<stmt>>, "e", <<Emit("caught")>>, <<>>)
      [] wrap = "try_finally" -> TryCatch(<<stmt>>, "", <<>>, <<Emit("fin")>>)
      [] wrap = "if_try"      -> If(FirstIteration,
                                    <<TryCatch(<<stmt>>, "e", <<Emit("caught")>>, <<>>)>>, <<>>)
      [] wrap = "try_if"      -> TryCatch(<<If(FirstIteration, <<stmt>>, <<>>)>>,
                                          "e", <<Emit("caught")>>, <<>>)
Wraps == {"direct", "if", "if_if", "try_catch", "try_finally", "if_try", "try_if"}

\* let o = 0;
\* while (o < 2) { o = o + 1; print("outer"); let i = 0;
\*     <inner loop> { i = i + 1; print("b"); <wrap: break;> print("x"); }
\*     print("next"); }
\* print("end");
\* inner loop: while (print("c") or i < MaxIter)
\*             for (print("init"); print("c") or i < MaxIter; print("inc"))
\*             for (k in range(MaxIter))
InnerLoop(loopk, body) ==
    CASE loopk = "while"  -> While(LoopCond, body)
      [] loopk = "for"    -> For(Call(Var("print"), <<Str("init")>>), LoopCond,
                                 Call(Var("print"), <<Str("inc")>>), body)
      [] loopk = "for_in" -> ForIn("k", Call(Var("range"), <<Num(MaxIter)>>), body)

BreakPrograms ==
    { [fam |-> "break", loopk |-> l, wrap |-> wr,
       code |-> <<VarDecl("let", "o", Num(0)),
                  While(BinOp("LT", Var("o"), Num(2)),
                        <<Incr("o"), Emit("outer"), VarDecl("let", "i", Num(0)),
                          InnerLoop(l, <<Incr("i"), Emit("b"), Wrap(wr, Break), Emit("x")>>),
                          Emit("next")>>),
                  Emit("end")>>]
      : l \in {"while", "for", "for_in"}, wr \in Wraps }

\* let i = 0;
\* for (print("init"); print("c") or i < MaxIter; print("inc")) {
\*     i = i + 1; print("b"); <continue; | if (i == at) { continue; }> print("x"); }
\* print("end");
\* at = 0: the continue is unconditional; at = k: it is executed in iteration k
ContinuePrograms ==
    { [fam |-> "continue", at |-> at,
       code |-> <<VarDecl("let", "i", Num(0)),
                  For(Call(Var("print"), <<Str("init")>>), LoopCond,
                      Call(Var("print"), <<Str("inc")>>),
                      <<Incr("i"), Emit("b"),
                        IF at = 0 THEN Continue
                        ELSE If(BinOp("EQEQ", Var("i"), Num(at)), <<Continue>>, <<>>),
                        Emit("x")>>),
                  Emit("end")>>]
      : at \in 0..MaxIter }

\* func f() { print("f"); <break; | continue;> print("g"); }
\* let i = 0;
\* <loop> { i = i + 1; print("b"); f(); print("x"); }
\* print("end");
\* the jump is in the body of f, outside any loop of that body; f is called
\* from the body of a loop
JumpInCalleePrograms ==
    { [fam |-> "jump_in_callee", jump |-> j, loopk |-> l,
       code |-> <<FuncDef("f", <<>>, <<Emit("f"), <<j>>, Emit("g")>>, FALSE),
                  VarDecl("let", "i", Num(0)),
                  InnerLoop(l, <<Incr("i"), Emit("b"), CallStmt("f", <<>>), Emit("x")>>),
                  Emit("end")>>]
      : j \in {"break", "continue"}, l \in {"while", "for", "for_in"} }

\* func rhs(){ print("rhs"); return 7; }   let r = <a> <and|or> rhs();   print(r);
LogicPrograms ==
    { [fam |-> "logic", op |-> op, a |-> a,
       code |-> <<FuncDef("rhs", <<>>, <<Emit("rhs"), Return(Num(7))>>, FALSE),
                  VarDecl("let", "r", BinOp(op, a, Call(Var("rhs"), <<>>))),
                  EmitVar("r")>>]
      : op \in {"AND", "OR"},
        a \in {Num(n) : n \in 0..MaxNum} \cup {Str(""), Str("s")} }

\* Programs of the subset the bytecode compiler translates: literals,
\* variable loads, assignments, + - * /, calls of host callables,
\* expression statements.
\*   arith    x = a op b; y = x;          str      x = "a" + "b";
\*   call0    x = list();                 call1    x = abs(a);
\*   call2    x = max(a, b);              callstmt print(a); x = a;
\*   exprstmt a + b; x = a;               undef    y = z;
\*   skipped  x = null;                   callnone x = print();
ArithOps == {"PLUS", "MINUS", "MUL", "DIV"}

BytecodeCode(kind, op, a, b) ==
    CASE kind = "arith"    -> <<Assign("x", BinOp(op, Num(a), Num(b))), Assign("y", Var("x"))>>
      [] kind = "str"      -> <<Assign("x", BinOp("PLUS", Str("a"), Str("b")))>>
      [] kind = "call0"    -> <<Assign("x", Call(Var("list"), <<>>))>>
      [] kind = "call1"    -> <<Assign("x", Call(Var("abs"), <<Num(a)>>))>>
      [] kind = "call2"    -> <<Assign("x", Call(Var("max"), <<Num(a), Num(b)>>))>>
      [] kind = "callstmt" -> <<CallStmt("print", <<Num(a)>>), Assign("x", Num(a))>>
      [] kind = "exprstmt" -> <<ExprStmt(BinOp(op, Num(a), Num(b))), Assign("x", Num(a))>>
      [] kind = "undef"    -> <<Assign("y", Var("z"))>>
      [] kind = "skipped"  -> <<Assign("x", <<"null">>)>>
      [] kind = "callnone" -> <<Assign("x", Call(Var("print"), <<>>))>>

BytecodePrograms ==
    { [fam |-> "bytecode", kind |-> "arith", op |-> op, a |-> a, b |-> b,
       code |-> BytecodeCode("arith", op, a, b)]
      : op \in ArithOps, a \in 0..MaxNum, b \in 0..MaxNum }
    \cup
    { [fam |-> "bytecode", kind |-> kind, op |-> "PLUS", a |-> a, b |-> b,
       code |-> BytecodeCode(kind, "PLUS", a, b)]
      : kind \in {"call2", "exprstmt"}, a \in 0..MaxNum, b \in 0..MaxNum }
    \cup
    { [fam |-> "bytecode", kind |-> kind, op |-> "PLUS", a |-> a, b |-> 0,
       code |-> BytecodeCode(kind, "PLUS", a, 0)]
      : kind \in {"call1", "callstmt"}, a \in 0..MaxNum }
    \cup
    { [fam |-> "bytecode", kind |-> kind, op |-> "PLUS", a |-> 0, b |-> 0,
       code |-> BytecodeCode(kind, "PLUS", 0, 0)]
      : kind \in {"str", "call0", "undef", "skipped", "callnone"} }

\* func f() { print("a"); <place: return v;> print("b"); return 0; }
\* let r = f(); print(r);
\* place: the return directly in the body, in an if block, in a loop body,
\* in a try block with a catch block, with an empty catch block, with a
\* finally block only
ReturnPlaces == {"direct", "if", "while", "for_in", "try_catch", "try_empty", "try_finally"}

ReturnAt(place, stmt) ==
    CASE place = "direct"      -> stmt
      [] place = "if"          -> If(Num(1), <<stmt>>, <<>>)
      [] place = "while"       -> While(Num(1), <<stmt>>)
      [] place = "for_in"      -> ForIn("k", Call(Var("range"), <<Num(MaxIter)>>), <<stmt>>)
      [] place = "try_catch"   -> TryCatch(<<stmt>>, "e", <<Emit("caught")>>, <<>>)
      [] place = "try_empty"   -> TryCatch(<<stmt>>, "e", <<>>, <<>>)
      [] place = "try_finally" -> TryCatch(<<stmt>>, "", <<>>, <<Emit("fin")>>)

ReturnPrograms ==
    { [fam |-> "return", place |-> pl, v |-> v,
       code |-> <<FuncDef("f", <<>>,
                          <<Emit("a"), ReturnAt(pl, Return(Num(v))), Emit("b"),
                            Return(Num(0))>>, FALSE),
                  VarDecl("let", "r", Call(Var("f"), <<>>)),
                  EmitVar("r")>>]
      : pl \in ReturnPlaces, v \in 1..MaxNum }

\* func f(n) { print("f"); if (n == 0) { return 0; } return <callee>(n - 1); }
\* [func g(n) { print("g"); if (n == 0) { return 0; } return f(n - 1); }]
\* let r = <entry>(n0); print("end");
\* kind direct: callee f, entry f; mutual_f: callee g, entry f (the function
\* declared first); mutual_g: callee g, entry g.  nest = "inner" puts the
\* declarations and the entry call into the body of `func o()`, called at
\* the top level.
Countdown(name, callee) ==
    FuncDef(name, <<"n">>,
            <<Emit(name),
              If(BinOp("EQEQ", Var("n"), Num(0)), <<Return(Num(0))>>, <<>>),
              Return(Call(Var(callee), <<BinOp("MINUS", Var("n"), Num(1))>>))>>, FALSE)

RecursionDecls(kind) ==
    IF kind = "direct" THEN <<Countdown("f", "f")>>
    ELSE <<Countdown("f", "g"), Countdown("g", "f")>>

RecursionEntry(kind) == IF kind = "mutual_g" THEN "g" ELSE "f"

RecursionPrograms ==
    { [fam |-> "recursion", kind |-> kind, nest |-> nest, n |-> n,
       code |-> IF nest = "top"
                THEN RecursionDecls(kind)
                     \o <<VarDecl("let", "r", Call(Var(RecursionEntry(kind)), <<Num(n)>>)),
                          Emit("end")>>
                ELSE <<FuncDef("o", <<>>,
                               RecursionDecls(kind)
                               \o <<Return(Call(Var(RecursionEntry(kind)), <<Num(n)>>))>>,
                               FALSE),
                       VarDecl("let", "r", Call(Var("o"), <<>>)),
                       Emit("end")>>]
      : kind \in {"direct", "mutual_f", "mutual_g"}, nest \in {"top", "inner"},
        n \in 0..MaxCalls }

\* func a(x) { print(x); return x; }
\* func f(p1, .., pk) { print(p1); ..; print(pk); <tail> }
\* let r = (print("callee") or f)(a(1), .., a(n)); print(r);
\* tail: none | expr: `5;` | ret: `return 7; print("late"); return 8;`
\* (k = 0 with tail none is the empty body)
ParamName(i) == "p" \o ToString(i)

CallTail(tail) ==
    CASE tail = "none" -> <<>>
      [] tail = "expr" -> <<ExprStmt(Num(5))>>
      [] tail = "ret"  -> <<Return(Num(7)), Emit("late"), Return(Num(8))>>

CallPrograms ==
    { [fam |-> "call", k |-> k, n |-> n, tail |-> tail,
       code |-> <<FuncDef("a", <<"x">>, <<EmitVar("x"), Return(Var("x"))>>, FALSE),
                  FuncDef("f", [i \in 1..k |-> ParamName(i)],
                          [i \in 1..k |-> EmitVar(ParamName(i))] \o CallTail(tail), FALSE),
                  VarDecl("let", "r",
                          Call(BinOp("OR", Call(Var("print"), <<Str("callee")>>), Var("f")),
                               [i \in 1..n |-> Call(Var("a"), <<Num(i)>>)])),
                  EmitVar("r")>>]
      : k \in 0..MaxParams, n \in 0..MaxArgs, tail \in {"none", "expr", "ret"} }

\* class K1 { [func greet() { return "K1"; }] }
\* class K2 < K1 { [func greet() { return "K2"; }] }  ..  class Kd < Kd-1 { .. }
\* followed by the text of the use, which goes through the parser:
\*   chain   let r = new Kd().greet(); print(r);
\*   bound   let b = new Kd(); let r = b.greet(); print(r);
\*   paren   let r = (new Kd()).greet(); print(r);
\* defs is the set of the classes of the chain that define greet.
ClassName(i) == "K" \o ToString(i)

ClassDecls(d, defs) ==
    [i \in 1..d |->
        ClassDef(ClassName(i), IF i = 1 THEN "" ELSE ClassName(i - 1),
                 IF i \in defs
                 THEN <<FuncDef("greet", <<>>, <<Return(Str(ClassName(i)))>>, FALSE)>>
                 ELSE <<>>)]

NewTokens(d) == <<Tok("NEW", "new"), Tok("IDENTIFIER", ClassName(d)), Tok("LP", "("),
                  Tok("RP", ")")>>
GreetTokens  == <<Tok("DOT", "."), Tok("IDENTIFIER", "greet"), Tok("LP", "("),
                  Tok("RP", ")"), Tok("SEMI", ";")>>
LetTokens(x) == <<Tok("LET", "let"), Tok("IDENTIFIER", x), Tok("EQ", "=")>>

UseTokens(form, d) ==
    (CASE form = "chain" -> LetTokens("r") \o NewTokens(d) \o GreetTokens
       [] form = "bound" -> LetTokens("b") \o NewTokens(d) \o <<Tok("SEMI", ";")>>
                            \o LetTokens("r") \o <<Tok("IDENTIFIER", "b")>> \o GreetTokens
       [] form = "paren" -> LetTokens("r") \o <<Tok("LP", "(")>> \o NewTokens(d)
                            \o <<Tok("RP", ")")>> \o GreetTokens)
    \o <<Tok("IDENTIFIER", "print"), Tok("LP", "("), Tok("IDENTIFIER", "r"),
         Tok("RP", ")"), Tok("SEMI", ";")>>

ClassProgram(form, d, defs) ==
    LET Parsed(use) ==
          [fam |-> "class", form |-> form, d |-> d, defs |-> defs,
           err |-> use.msg,
           code |-> IF use.ok THEN ClassDecls(d, defs) \o use.node ELSE <<>>]
    IN  Parsed(parse(UseTokens(form, d), 1, <<>>))

ClassPrograms ==
    UNION { { ClassProgram(form, d, defs)
              : form \in {"chain", "bound", "paren"}, defs \in SUBSET (1..d) }
            : d \in 1..MaxDepth }

\* the text of the SyntaxError raised by the parser for the program, "" when
\* it parses (the programs given as trees are the parser's output)
SyntaxErrorOf(p) == IF p.fam = "class" THEN p.err ELSE ""

\* [let n = 0;]
\* func h() { <body> }
\* api App { GET "/" -> h }
\* The handler bodies, by kind:
\*   none     print("h1"); print("h2");
\*   str      print("h1"); return "hi"; print("h2");
\*   map      print("h1"); return {a: 1}; print("h2");
\*   num      print("h1"); return 7; print("h2");
\*   in_if    print("h1"); if (1) { return "hi"; } print("h2");
\*   throw    print("h1"); throw "boom"; print("h2");
\*   assign   print(n); n = n + 1; m = n; print(m);
\*   globalns print(global.n); global.n = global.n + 1;
HandlerBody(kind) ==
    CASE kind = "none"   -> <<Emit("h1"), Emit("h2")>>
      [] kind = "str"    -> <<Emit("h1"), Return(Str("hi")), Emit("h2")>>
      [] kind = "map"    -> <<Emit("h1"), Return(Obj(<<<<"a", Num(1)>>>>)), Emit("h2")>>
      [] kind = "num"    -> <<Emit("h1"), Return(Num(7)), Emit("h2")>>
      [] kind = "in_if"  -> <<Emit("h1"), If(Num(1), <<Return(Str("hi"))>>, <<>>), Emit("h2")>>
      [] kind = "throw"  -> <<Emit("h1"), Throw(Str("boom")), Emit("h2")>>
      [] kind = "assign" -> <<EmitVar("n"), Incr("n"), Assign("m", Var("n")), EmitVar("m")>>
      [] kind = "globalns" ->
           <<CallStmt("print", <<Member(Var("global"), "n")>>),
             <<"assign", Member(Var("global"), "n"),
               BinOp("PLUS", Member(Var("global"), "n"), Num(1))>> >>

WebKinds == {"none", "str", "map", "num", "in_if", "throw", "assign", "globalns"}

WebPrograms ==
    { [fam |-> "web", kind |-> kind,
       code |-> <<VarDecl("let", "n", Num(0)),
                  FuncDef("h", <<>>, HandlerBody(kind), FALSE),
                  ApiDef("App", <<Route("GET", "/", "h")>>)>>]
      : kind \in WebKinds }

\* x = a / b;  or  x = a % b;   with a in -MaxNum..MaxNum (a negative a is
\* written 0 - k) and b in 0..MaxNum
Literal(a) == IF a < 0 THEN BinOp("MINUS", Num(0), Num(0 - a)) ELSE Num(a)

DivPrograms ==
    { [fam |-> "div", op |-> op, a |-> a, b |-> b,
       code |-> <<Assign("x", BinOp(op, Literal(a), Num(b)))>>]
      : op \in {"DIV", "MOD"}, a \in (0 - MaxNum)..MaxNum, b \in 0..MaxNum }

\* Source files given to `--fmt`: up to MaxLines lines out of a set of
\* lines with and without leading and trailing whitespace, opening and
\* closing braces and brackets at either end
SourceLines ==
    { <<>>, <<" ">>, <<"x">>, <<" ", "x">>, <<"x", " ">>, <<"\t", "x">>,
      <<"{">>, <<" ", "{">>, <<"x", " ", "{">>, <<"{", " ">>,
      <<"}">>, <<" ", " ", "}">>, <<"}", " ", "x">>, <<"}", " ", "{">>,
      <<"[">>, <<" ", "]">>, <<"{", "}">> }

RECURSIVE Texts(_)
Texts(n) ==
    IF n = 0 THEN {<<>>}
    ELSE LET shorter == Texts(n - 1) IN
         shorter \cup { Append(t, l) : t \in {u \in shorter : Len(u) = n - 1}, l \in SourceLines }

FmtPrograms ==
    { [fam |-> "fmt", source |-> t, code |-> <<>>] : t \in Texts(MaxLines) \ {<<>>} }

\* the content of a file
Text(lines) == <<"text", lines>>

Programs ==
    ScopePrograms \cup ConstPrograms \cup AsyncPrograms \cup AwaitPrograms
        \cup TryPrograms \cup BreakPrograms \cup ContinuePrograms \cup LogicPrograms
        \cup JumpInCalleePrograms \cup AwaitAgainPrograms \cup ReplPrograms
        \cup BytecodePrograms \cup ReturnPrograms
        \cup RecursionPrograms \cup CallPrograms
        \cup ClassPrograms \cup WebPrograms \cup DivPrograms

(***************************************************************************)
(* The run of a program by main.  In the normal mode VM.eval(ast) runs     *)
(* _eval_program, which evaluates the top-level statements in order.  With *)
(* --use-bytecode the program is compiled and run by BytecodeVM on the     *)
(* global table of a fresh VM (the variable scope is that table in both    *)
(* modes; host calls print to the VM's output buffer, world.out).          *)
(***************************************************************************)
\* the last call made on the innermost frame of a Scope chain: its kind, key, outcome, the
\* chain before it, and the number of declarations and assignments so far
ScopeCall(kind, key, value, out, before, writes) ==
    [kind |-> kind, key |-> key, value |-> value, out |-> out,
     before |-> before, writes |-> writes]
NoCall == ScopeCall("none", "", None, None, <<>>, 0)

\* Lexer(source); phase tells whether tokenize is about to skip blanks and
\* comments or to read a token
Lexer(source) == [source |-> source, pos |-> 0, line |-> 1, col |-> 1, tokens |-> <<>>,
                  phase |-> "skip"]
NoLexer == Lexer(<<>>)

\* EventLoop(): ready is the deque of tasks (indices into tasks, the
\* AsyncTask objects created so far); phase tells where run_until_complete
\* is, main is its local `task` and returned the value it returned
EventLoop == [ready |-> <<>>, scheduled |-> <<>>, running |-> FALSE, tasks |-> <<>>,
              phase |-> "idle", main |-> 0, returned |-> None]

EmptyWorld == [out |-> <<>>, gens |-> <<>>, globals |-> GlobalScope,
               enable_web |-> FALSE, web_app |-> FALSE, routes |-> <<>>,
               file |-> <<>>]
IdleBvm == [st |-> "idle"]

Init ==
    /\ prog \in Programs \cup FmtPrograms
    /\ mode \in IF prog \in FmtPrograms THEN {"fmt"}
                ELSE {"ast", "bytecode"} \cup (IF prog \in WebPrograms THEN {"web"} ELSE {})
    /\ pc = 1
    /\ scope = GlobalScope
    /\ world = [EmptyWorld EXCEPT !.enable_web = (mode = "web"),
                                 !.file = IF mode = "fmt" THEN Text(prog.source) ELSE @]
    /\ status = "running"
    /\ result = None
    /\ bvm = IdleBvm
    /\ requests = <<>>
    /\ frames = <<>>
    /\ call = NoCall
    /\ lexer = NoLexer
    /\ loop = EventLoop

\* The global scope after a top-level statement: the statement's own scope
\* is the global dict, to which the stores made through the global
\* namespace during the statement are applied.
MergeGlobals(sc, g, before) ==
    [n \in DOMAIN sc \cup DOMAIN g |->
        IF n \in DOMAIN g /\ (n \notin DOMAIN before \/ n \notin DOMAIN sc)
        THEN g[n]
        ELSE IF n \in DOMAIN g /\ n \in DOMAIN before /\ g[n] # before[n] THEN g[n]
        ELSE sc[n]]

\* after vm.eval(ast) main starts the web server when --web is given
AfterEval == IF mode = "web" THEN "serving" ELSE "done"

\* one iteration of `for stmt in statements` in _eval_program; VM.eval
\* catches a ReturnException, any other exception escapes to main
RunStatement ==
    /\ mode \in {"ast", "web"}
    /\ status = "running"
    /\ SyntaxErrorOf(prog) = ""
    /\ pc <= Len(prog.code)
    /\ \E c \in {eval_gen(prog.code[pc], scope, world)} :
       LET g == MergeGlobals(c.sc, c.w.globals, scope) IN
       /\ scope' = g
       /\ world' = [c.w EXCEPT !.globals = g]
       /\ result' = IF c.k \in {"normal", "return"} THEN c.v
                    ELSE StrV(StrOfException(c))
       /\ status' = CASE c.k = "normal" -> "running"
                      [] c.k = "return" -> AfterEval
                      [] OTHER -> "failed"
       /\ pc' = IF c.k = "normal" THEN pc + 1 ELSE pc
    /\ UNCHANGED <<loop, lexer, frames, call, prog, mode, bvm, requests>>

\* _eval_program returned: VM.eval has drained the generator with
\* `for yielded in gen: pass` and returns its own local `result`, None
ProgramEnd ==
    /\ mode \in {"ast", "web"}
    /\ status = "running"
    /\ SyntaxErrorOf(prog) = ""
    /\ pc > Len(prog.code)
    /\ status' = AfterEval
    /\ result' = None
    /\ UNCHANGED <<loop, lexer, frames, call, prog, mode, pc, scope, world, bvm, requests>>

\* bytecode = compiler.compile(ast); bvm = BytecodeVM(vm.global_scope)
BytecodeCompile ==
    /\ mode = "bytecode"
    /\ bvm.st = "idle"
    /\ SyntaxErrorOf(prog) = ""
    /\ LET bytecode == compile(Program(prog.code)) IN
       bvm' = [st |-> "running", ip |-> 1, stack |-> <<>>,
               instructions |-> bytecode.instructions,
               constants |-> bytecode.constants]
    /\ UNCHANGED <<loop, lexer, frames, call, prog, mode, pc, scope, world, status, result, requests>>

\* one iteration of the loop of BytecodeVM.run; at HALT run returns the top
\* of the stack (None when it is empty), a host exception escapes to main
BvmStep ==
    /\ mode = "bytecode"
    /\ bvm.st = "running"
    /\ bvm.ip <= Len(bvm.instructions)
    /\ LET x == BvmExec(bvm, scope, world.out) IN
       /\ bvm' = x.m
       /\ scope' = x.g
       /\ world' = [world EXCEPT !.out = x.out, !.globals = x.g]
       /\ status' = CASE x.m.st = "halted"  -> "done"
                      [] x.m.st = "crashed" -> "failed"
                      [] OTHER -> "running"
       /\ result' = IF x.m.st = "halted" /\ x.m.stack # <<>> THEN Top(x.m.stack)
                    ELSE None
    /\ UNCHANGED <<loop, lexer, frames, call, prog, mode, pc, requests>>

\* parser_obj.parse() raised: main reports the syntax error and exits before
\* anything of the program is run, in either mode
SyntaxFailure ==
    /\ status = "running"
    /\ SyntaxErrorOf(prog) # ""
    /\ status' = "failed"
    /\ result' = StrV("Syntax Error: " \o SyntaxErrorOf(prog))
    /\ UNCHANGED <<loop, lexer, frames, call, prog, mode, pc, scope, world, bvm, requests>>

\* Response(body, mimetype) and jsonify(val), with the status code
Response(code, mimetype, body) == [code |-> code, mimetype |-> mimetype, body |-> body]

\* the except clauses of flask_handler, for an exception that reaches it
HandlerFailure(c) ==
    IF c.k = "return"
    THEN IF c.v[1] = "str" THEN Response(200, "text/html", c.v)
         ELSE IF c.v[1] = "dict" THEN Response(200, "application/json", c.v)
         ELSE Response(200, "text/plain", StrV(PyStr(c.v)))
    ELSE Response(500, "application/json", DictV([error |-> StrV(StrOfException(c))]))

\* VM.eval(node, scope): the generator of eval_gen is run to its end; a
\* ReturnException is caught here and its value returned
CatchReturn(c) ==
    IF c.k = "return" THEN Normal(c.v, c.sc, c.w)
    ELSE IF c.k = "normal" THEN Normal(None, c.sc, c.w)
    ELSE c

eval(node, sc, w) == CatchReturn(eval_gen(node, sc, w))

\* a request for a registered route arrives: flask_handler starts in a
\* thread of the server and copies the handler's closure
RequestArrives ==
    /\ status = "serving"
    /\ Len(requests) < MaxRequests
    /\ \E r \in 1..Len(world.routes), q \in {EmptyDict, [q |-> StrV("x")]} :
         LET handler_func == world.routes[r].handler_func
             local_scope ==
                 SetItem(SetItem(SetItem(Copy(handler_func[5]),
                                         "request_args", DictV(q)),
                                 "request_json", DictV(EmptyDict)),
                         "request_method", StrV(world.routes[r].method))
         IN  requests' = Append(requests, [route |-> r, pc |-> 1, local_scope |-> local_scope,
                                           st |-> "running", response |-> None])
    /\ UNCHANGED <<loop, lexer, frames, call, prog, mode, pc, scope, world, status, result, bvm>>

\* the invocations run on the handler's stored closure itself
HandlerStep_shared_closure ==
    /\ status = "serving"
    /\ \E i \in 1..Len(requests) :
         LET rq == requests[i]
             body == world.routes[rq.route].handler_func[4]
         IN
         /\ rq.st = "running"
         /\ rq.pc <= Len(body)
         /\ \E c \in {eval(body[rq.pc], rq.local_scope, world)} :
            /\ requests' = [requests EXCEPT ![i] =
                              IF c.k = "normal"
                              THEN [rq EXCEPT !.pc = rq.pc + 1, !.local_scope = c.sc]
                              ELSE [rq EXCEPT !.st = "done", !.local_scope = c.sc,
                                              !.response = HandlerFailure(c)]]
            /\ world' = [c.w EXCEPT !.routes[rq.route].handler_func[5] = c.sc]
            /\ scope' = c.w.globals
    /\ UNCHANGED <<loop, lexer, frames, call, prog, mode, pc, status, result, bvm>>

\* one iteration of `for stmt in handler_func.body: self.eval(stmt,
\* local_scope)` of some running invocation (the invocations interleave
\* between statements); an exception ends the invocation with the response
\* of the matching except clause
HandlerStep ==
    /\ status = "serving"
    /\ \E i \in 1..Len(requests) :
         LET rq == requests[i]
             body == world.routes[rq.route].handler_func[4]
         IN
         /\ rq.st = "running"
         /\ rq.pc <= Len(body)
         /\ \E c \in {eval(body[rq.pc], rq.local_scope, world)} :
            /\ requests' = [requests EXCEPT ![i] =
                              IF c.k = "normal"
                              THEN [rq EXCEPT !.pc = rq.pc + 1, !.local_scope = c.sc]
                              ELSE [rq EXCEPT !.st = "done", !.local_scope = c.sc,
                                              !.response = HandlerFailure(c)]]
            /\ world' = c.w
            /\ scope' = c.w.globals
    /\ UNCHANGED <<loop, lexer, frames, call, prog, mode, pc, status, result, bvm>>

\* the body is exhausted: return Response("", mimetype="text/plain")
HandlerReturns ==
    /\ status = "serving"
    /\ \E i \in 1..Len(requests) :
         /\ requests[i].st = "running"
         /\ requests[i].pc > Len(world.routes[requests[i].route].handler_func[4])
         /\ requests' = [requests EXCEPT ![i].st = "done",
                                         ![i].response = Response(200, "text/plain", StrV(""))]
    /\ UNCHANGED <<loop, lexer, frames, call, prog, mode, pc, scope, world, status, result, bvm>>

\* one run of `hexza --fmt FILE`: the file is read, formatted and written
\* back, and the process exits before any program is parsed or run
Fmt ==
    /\ mode = "fmt"
    /\ status = "running"
    /\ pc <= MaxRuns
    /\ world' = [world EXCEPT !.file = Text(format(world.file[2]))]
    /\ pc' = pc + 1
    /\ status' = IF pc = MaxRuns THEN "done" ELSE "running"
    /\ UNCHANGED <<loop, lexer, frames, call, prog, mode, scope, result, bvm, requests>>

Next ==
    \/ RunStatement \/ ProgramEnd \/ BytecodeCompile \/ BvmStep \/ SyntaxFailure
    \/ RequestArrives \/ HandlerStep \/ HandlerReturns \/ Fmt

Spec == Init /\ [][Next]_vars

(***************************************************************************)
(* class Scope(UserDict).  A chain of frames is the sequence of its        *)
(* frames, innermost first: the parent of frames[i] is frames[i + 1], the  *)
(* parent of the last frame is None.  A frame is [data, consts].  The      *)
(* evaluator never creates a Scope; the class is driven here by a client   *)
(* that creates frames, declares, assigns and looks names up through the   *)
(* innermost frame.                                                        *)
(***************************************************************************)
Names == {"x", "y"}
Values == {NumV(0), NumV(1)}

Frame(data, consts) == [data |-> data, consts |-> consts]

\* `if self.parent`: None is false, and a Scope is a UserDict, whose truth
\* value is that of len(self.data)
HasParent(fs, i) == i < Len(fs) /\ DOMAIN fs[i + 1].data # {}

KeyError(key) == <<"KeyError", key>>

RECURSIVE get(_, _, _, _)
get(fs, i, key, default) ==
    IF key \in DOMAIN fs[i].data THEN fs[i].data[key]
    ELSE IF HasParent(fs, i) THEN get(fs, i + 1, key, default)
    ELSE default

RECURSIVE __getitem__(_, _, _)
__getitem__(fs, i, key) ==
    IF key \in DOMAIN fs[i].data THEN fs[i].data[key]
    ELSE IF HasParent(fs, i) THEN __getitem__(fs, i + 1, key)
    ELSE KeyError(key)

RECURSIVE has_key(_, _, _)
has_key(fs, i, key) ==
    IF key \in DOMAIN fs[i].data THEN TRUE
    ELSE IF HasParent(fs, i) THEN has_key(fs, i + 1, key)
    ELSE FALSE

\* result: [fs |-> the chain afterwards, out |-> "ok" or the error raised]
RECURSIVE __setitem__(_, _, _, _)
__setitem__(fs, i, key, value) ==
    IF key \in fs[i].consts
    THEN [fs |-> fs, out |-> "Assignment to constant variable '" \o key \o "'"]
    ELSE IF key \in DOMAIN fs[i].data
    THEN [fs |-> [fs EXCEPT ![i].data = SetItem(@, key, value)], out |-> "ok"]
    ELSE IF HasParent(fs, i) /\ has_key(fs, i + 1, key)
    THEN __setitem__(fs, i + 1, key, value)
    ELSE [fs |-> [fs EXCEPT ![i].data = SetItem(@, key, value)], out |-> "ok"]

declare(fs, i, key, value, is_const) ==
    IF key \in DOMAIN fs[i].data
    THEN [fs |-> fs, out |-> "Variable '" \o key \o "' already declared in this scope"]
    ELSE [fs |-> [fs EXCEPT ![i].data = SetItem(@, key, value),
                            ![i].consts = IF is_const THEN @ \cup {key} ELSE @],
          out |-> "ok"]

IdleMachine ==
    /\ prog = [fam |-> "none", code |-> <<>>]
    /\ mode = "none"
    /\ pc = 1
    /\ scope = GlobalScope
    /\ world = EmptyWorld
    /\ status = "running"
    /\ result = None
    /\ bvm = IdleBvm
    /\ requests = <<>>

machine == <<prog, mode, pc, scope, world, status, result, bvm, requests>>

\* Scope(): the root frame
ScopeInit ==
    /\ IdleMachine
    /\ frames = <<Frame(EmptyDict, {})>>
    /\ call = NoCall
    /\ lexer = NoLexer
    /\ loop = EventLoop

\* Scope(parent): a new innermost frame
NewScope ==
    /\ Len(frames) < MaxFrames
    /\ frames' = <<Frame(EmptyDict, {})>> \o frames
    /\ call' = ScopeCall("new", "", None, "ok", frames, call.writes)
    /\ UNCHANGED <<loop, machine, lexer>>

Declare ==
    /\ call.writes < MaxWrites
    /\ \E key \in Names, value \in Values, is_const \in BOOLEAN :
          LET d == declare(frames, 1, key, value, is_const) IN
          /\ frames' = d.fs
          /\ call' = ScopeCall("declare", key, value, d.out, frames, call.writes + 1)
    /\ UNCHANGED <<loop, machine, lexer>>

\* scope[key] = value
SetItemCall ==
    /\ call.writes < MaxWrites
    /\ \E key \in Names, value \in Values :
          LET s == __setitem__(frames, 1, key, value) IN
          /\ frames' = s.fs
          /\ call' = ScopeCall("setitem", key, value, s.out, frames, call.writes + 1)
    /\ UNCHANGED <<loop, machine, lexer>>

\* scope[key]
GetItemCall ==
    /\ \E key \in Names :
          call' = ScopeCall("getitem", key, None, __getitem__(frames, 1, key), frames, call.writes)
    /\ UNCHANGED <<loop, frames, machine, lexer>>

\* scope.get(key, default), with a default no frame holds
GetCall ==
    /\ \E key \in Names :
          call' = ScopeCall("get", key, None, get(frames, 1, key, StrV("default")),
                       frames, call.writes)
    /\ UNCHANGED <<loop, frames, machine, lexer>>

HasKeyCall ==
    /\ \E key \in Names :
          call' = ScopeCall("has_key", key, None, BoolV(has_key(frames, 1, key)),
                       frames, call.writes)
    /\ UNCHANGED <<loop, frames, machine, lexer>>

ScopeNext ==
    \/ NewScope \/ Declare \/ SetItemCall \/ GetItemCall \/ GetCall \/ HasKeyCall

ScopeSpec == ScopeInit /\ [][ScopeNext]_vars

(***************************************************************************)
(* class Lexer.  A source text is the sequence of its characters; pos is   *)
(* the 0-based index of Python.  The lexer is lx = [source, pos, line,     *)
(* col, tokens].  A token carries, besides the four fields of the source,  *)
(* the index `at` at which its start_line/start_col were taken (a field    *)
(* of the model only).  The sources hold no triple quotes, so              *)
(* _read_multiline_string is never entered.                                *)
(***************************************************************************)
Token(type, value, line, col, at) ==
    [type |-> type, value |-> value, line |-> line, col |-> col, at |-> at]

Letters == {"a", "b", "c", "d", "e", "f", "g", "h", "i", "j", "k", "l", "m", "n", "o",
            "p", "q", "r", "s", "t", "u", "v", "w", "x", "y", "z"}
Digits == <<"0", "1", "2", "3", "4", "5", "6", "7", "8", "9">>
isdigit(c) == \E i \in DOMAIN Digits : Digits[i] = c
isalpha(c) == c \in Letters
isalnum(c) == isalpha(c) \/ isdigit(c)

KEYWORDS ==
    ("if" :> "IF") @@ ("else" :> "ELSE") @@ ("elseif" :> "ELSEIF") @@ ("while" :> "WHILE")
    @@ ("for" :> "FOR") @@ ("break" :> "BREAK") @@ ("continue" :> "CONTINUE")
    @@ ("func" :> "FUNC") @@ ("return" :> "RETURN") @@ ("class" :> "CLASS")
    @@ ("struct" :> "STRUCT") @@ ("enum" :> "ENUM") @@ ("import" :> "IMPORT")
    @@ ("from" :> "FROM") @@ ("export" :> "EXPORT") @@ ("as" :> "AS") @@ ("true" :> "TRUE")
    @@ ("false" :> "FALSE") @@ ("null" :> "NULL") @@ ("try" :> "TRY") @@ ("catch" :> "CATCH")
    @@ ("finally" :> "FINALLY") @@ ("throw" :> "THROW") @@ ("async" :> "ASYNC")
    @@ ("await" :> "AWAIT") @@ ("yield" :> "YIELD") @@ ("lambda" :> "LAMBDA")
    @@ ("match" :> "MATCH") @@ ("case" :> "CASE") @@ ("default" :> "DEFAULT")
    @@ ("in" :> "IN") @@ ("of" :> "OF") @@ ("is" :> "IS") @@ ("and" :> "AND")
    @@ ("or" :> "OR") @@ ("not" :> "NOT") @@ ("new" :> "NEW") @@ ("this" :> "THIS")
    @@ ("super" :> "SUPER") @@ ("static" :> "STATIC") @@ ("const" :> "CONST")
    @@ ("let" :> "LET") @@ ("var" :> "VAR") @@ ("log" :> "LOG") @@ ("api" :> "API")
    @@ ("route" :> "ROUTE") @@ ("self" :> "THIS") @@ ("fastfunc" :> "FASTFUNC")

two_char_map ==
    ("==" :> "EQEQ") @@ ("!=" :> "NEQ") @@ ("<=" :> "LE") @@ (">=" :> "GE")
    @@ ("**" :> "POW") @@ ("->" :> "ARROW") @@ ("=>" :> "FATARROW") @@ ("<<" :> "LSHIFT")
    @@ (">>" :> "RSHIFT") @@ ("++" :> "INCR") @@ ("--" :> "DECR") @@ ("+=" :> "PLUS_EQ")
    @@ ("-=" :> "MINUS_EQ") @@ ("*=" :> "MUL_EQ") @@ ("/=" :> "DIV_EQ")
    @@ ("&&" :> "AND_OP") @@ ("||" :> "OR_OP") @@ (".." :> "ELLIPSIS")

\* (the backquote, PIPE, is left out: no source of the model holds one)
single_char_map ==
    ("+" :> "PLUS") @@ ("-" :> "MINUS") @@ ("*" :> "MUL") @@ ("/" :> "DIV")
    @@ ("%" :> "MOD") @@ ("=" :> "EQ") @@ ("<" :> "LT") @@ (">" :> "GT")
    @@ ("!" :> "NOT_OP") @@ ("&" :> "BIT_AND") @@ ("|" :> "BIT_OR") @@ ("^" :> "BIT_XOR")
    @@ ("~" :> "BIT_NOT") @@ ("(" :> "LP") @@ (")" :> "RP") @@ ("{" :> "LBRACE")
    @@ ("}" :> "RBRACE") @@ ("[" :> "LBRACK") @@ ("]" :> "RBRACK") @@ ("," :> "COMMA")
    @@ (";" :> "SEMI") @@ (":" :> "COLON") @@ ("." :> "DOT") @@ ("?" :> "QUESTION")
    @@ ("@" :> "AT") @@ ("$" :> "DOLLAR")

\* the escapes of _read_string (the escape 0 gives the NUL character, written <NUL>)
escape_map ==
    ("n" :> "\n") @@ ("t" :> "\t") @@ ("r" :> "\r") @@ ("\\" :> "\\") @@ ("\"" :> "\"")
    @@ ("'" :> "'") @@ ("0" :> "<NUL>")

\* self.source[self.pos] and self.source[self.pos:self.pos+2]
CharAt(lx) == lx.source[lx.pos + 1]
TwoAt(lx) ==
    IF lx.pos + 1 < Len(lx.source) THEN lx.source[lx.pos + 1] \o lx.source[lx.pos + 2]
    ELSE IF lx.pos < Len(lx.source) THEN lx.source[lx.pos + 1]
    ELSE ""

\* self.pos += n; self.col += n
Advance(lx, n) == [lx EXCEPT !.pos = @ + n, !.col = @ + n]
\* self.pos += 1; self.line += 1; self.col = 1
NewLine(lx) == [lx EXCEPT !.pos = @ + 1, !.line = @ + 1, !.col = 1]

\* match = WHITESPACE_RE.match(source, pos): col += len(match.group()); pos = match.end()
RECURSIVE WhitespaceMatch(_)
WhitespaceMatch(lx) ==
    IF lx.pos < Len(lx.source) /\ CharAt(lx) \in {" ", "\t", "\r"}
    THEN WhitespaceMatch(Advance(lx, 1)) ELSE lx

\* while pos < len(source) and source[pos] != '\n': pos += 1
RECURSIVE LineComment(_)
LineComment(lx) ==
    IF lx.pos < Len(lx.source) /\ CharAt(lx) # "\n"
    THEN LineComment([lx EXCEPT !.pos = @ + 1]) ELSE lx

\* the loop over the body of a block comment, entered after pos += 2
RECURSIVE BlockComment(_)
BlockComment(lx) ==
    IF lx.pos < Len(lx.source) - 1
    THEN IF TwoAt(lx) = "*/" THEN [lx EXCEPT !.pos = @ + 2]
         ELSE BlockComment(IF CharAt(lx) = "\n" THEN NewLine(lx) ELSE Advance(lx, 1))
    ELSE lx

RECURSIVE _skip_whitespace_and_comments(_)
_skip_whitespace_and_comments(lx) ==
    IF lx.pos >= Len(lx.source) THEN lx
    ELSE IF CharAt(lx) \in {" ", "\t", "\r"}
         THEN _skip_whitespace_and_comments(WhitespaceMatch(Advance(lx, 1)))
    ELSE IF CharAt(lx) = "\n"
         THEN _skip_whitespace_and_comments(WhitespaceMatch(NewLine(lx)))
    ELSE IF TwoAt(lx) = "//"
         THEN _skip_whitespace_and_comments(WhitespaceMatch(LineComment(lx)))
    ELSE IF TwoAt(lx) = "/*"
         THEN _skip_whitespace_and_comments(
                  WhitespaceMatch(BlockComment([lx EXCEPT !.pos = @ + 2])))
    ELSE lx

Emit_token(lx, start, type, value) ==
    [lx EXCEPT !.tokens = Append(@, Token(type, value, start.line, start.col, start.pos))]

\* the loop of _read_string; the result is [lx, value]
RECURSIVE StringLoop(_, _, _)
StringLoop(lx, quote, value) ==
    IF lx.pos < Len(lx.source) /\ CharAt(lx) # quote
    THEN IF CharAt(lx) = "\\" /\ lx.pos + 1 < Len(lx.source)
         THEN IF lx.source[lx.pos + 2] \in DOMAIN escape_map
              THEN StringLoop(Advance(lx, 2), quote, value \o escape_map[lx.source[lx.pos + 2]])
              ELSE StringLoop(Advance(lx, 1), quote, value \o CharAt(lx))
         ELSE StringLoop(IF CharAt(lx) = "\n" THEN NewLine(lx) ELSE Advance(lx, 1),
                         quote, value \o CharAt(lx))
    ELSE [lx |-> lx, value |-> value]

_read_string(lx) ==
    LET Close(s) ==
          Emit_token(IF s.lx.pos < Len(s.lx.source) THEN Advance(s.lx, 1) ELSE s.lx,
                     lx, "STRING", StrV(s.value))
    IN  Close(StringLoop(Advance(lx, 1), CharAt(lx), ""))

\* int(value) of a sequence of digits
RECURSIVE IntOf(_, _)
IntOf(digits, acc) ==
    IF digits = <<>> THEN acc
    ELSE IntOf(Tail(digits),
               acc * 10 + (CHOOSE i \in DOMAIN Digits : Digits[i] = Head(digits)) - 1)

RECURSIVE Pow10(_)
Pow10(n) == IF n = 0 THEN 1 ELSE 10 * Pow10(n - 1)

\* a float as the fraction n / d in lowest decimal terms
RECURSIVE FloatV(_, _)
FloatV(n, d) == IF d > 1 /\ n % 10 = 0 THEN FloatV(n \div 10, d \div 10) ELSE <<"float", n, d>>

\* float(value) if has_dot else int(value), value a sequence of characters
NumberValue(value, has_dot) ==
    IF ~has_dot THEN NumV(IntOf(value, 0))
    ELSE LET dot == CHOOSE i \in DOMAIN value : value[i] = "."
             frac == SubSeq(value, dot + 1, Len(value))
         IN  FloatV(IntOf(SubSeq(value, 1, dot - 1) \o frac, 0), Pow10(Len(frac)))

\* the loop of _read_number; the result is [lx, value, has_dot]
RECURSIVE NumberLoop(_, _, _)
NumberLoop(lx, value, has_dot) ==
    IF lx.pos < Len(lx.source) /\ (isdigit(CharAt(lx)) \/ CharAt(lx) = ".")
       /\ ~(CharAt(lx) = "." /\ has_dot)
    THEN NumberLoop(Advance(lx, 1), Append(value, CharAt(lx)), has_dot \/ CharAt(lx) = ".")
    ELSE [lx |-> lx, value |-> value, has_dot |-> has_dot]

_read_number(lx) ==
    LET Number(s) == Emit_token(s.lx, lx, "NUMBER", NumberValue(s.value, s.has_dot))
    IN  Number(NumberLoop(lx, <<>>, FALSE))

\* the loop of _read_identifier; the result is [lx, value]
RECURSIVE IdentifierLoop(_, _)
IdentifierLoop(lx, value) ==
    IF lx.pos < Len(lx.source) /\ (isalnum(CharAt(lx)) \/ CharAt(lx) = "_")
    THEN IdentifierLoop(Advance(lx, 1), value \o CharAt(lx))
    ELSE [lx |-> lx, value |-> value]

_read_identifier(lx) ==
    LET Identifier(s) ==
          Emit_token(s.lx, lx,
                     IF s.value \in DOMAIN KEYWORDS THEN KEYWORDS[s.value] ELSE "IDENTIFIER",
                     StrV(s.value))
    IN  Identifier(IdentifierLoop(lx, ""))

_read_operator(lx) ==
    IF lx.pos + 1 < Len(lx.source) /\ TwoAt(lx) \in DOMAIN two_char_map
    THEN Advance(Emit_token(lx, lx, two_char_map[TwoAt(lx)], StrV(TwoAt(lx))), 2)
    ELSE IF CharAt(lx) \in DOMAIN single_char_map
         THEN Advance(Emit_token(lx, lx, single_char_map[CharAt(lx)], StrV(CharAt(lx))), 1)
    ELSE Advance(lx, 1)

\* a dot is never the start of a number
Reader_dot_never_starts_number(lx) ==
    IF CharAt(lx) \in {"\"", "'"} THEN "string"
    ELSE IF isdigit(CharAt(lx)) THEN "number"
    ELSE IF isalpha(CharAt(lx)) \/ CharAt(lx) = "_" THEN "identifier"
    ELSE "operator"

\* the reader tokenize chooses at the current character
Reader(lx) ==
    IF CharAt(lx) \in {"\"", "'"} THEN "string"
    ELSE IF isdigit(CharAt(lx))
            \/ (CharAt(lx) = "." /\ lx.pos + 1 < Len(lx.source)
                /\ isdigit(lx.source[lx.pos + 2]))
         THEN "number"
    ELSE IF isalpha(CharAt(lx)) \/ CharAt(lx) = "_" THEN "identifier"
    ELSE "operator"

\* Source texts: up to MaxPieces pieces, one after the other
Pieces ==
    { <<"x">>, <<" ">>, <<"\n">>, <<"/", "/", " ", "c">>,
      <<"/", "*", " ", "c", " ", "*", "/">>, <<"/", "*", "\n", "*", "/">>,
      <<"\"", "a", "\\", "n", "b", "\"">>, <<"=", "=">>, <<"=">>,
      <<"1", ".", "2">>, <<".">>, <<"3">>, <<"l", "e", "t">> }

RECURSIVE Sources(_)
Sources(n) ==
    IF n = 0 THEN {<<>>}
    ELSE LET shorter == Sources(n - 1) IN
         shorter \cup { s \o p : s \in shorter, p \in Pieces }

\* Lexer(source)
LexInit ==
    /\ IdleMachine
    /\ frames = <<>>
    /\ call = NoCall
    /\ lexer \in { Lexer(s) : s \in Sources(MaxPieces) }
    /\ loop = EventLoop

\* tokenize: `while self.pos < len(self.source): self._skip_whitespace_and_comments()`
Skip ==
    /\ lexer.phase = "skip"
    /\ lexer.pos < Len(lexer.source)
    /\ lexer' = [_skip_whitespace_and_comments(lexer) EXCEPT !.phase = "read"]
    /\ UNCHANGED <<loop, machine, frames, call>>

ReadString ==
    /\ lexer.phase = "read"
    /\ lexer.pos < Len(lexer.source)
    /\ Reader(lexer) = "string"
    /\ lexer' = [_read_string(lexer) EXCEPT !.phase = "skip"]
    /\ UNCHANGED <<loop, machine, frames, call>>

ReadNumber ==
    /\ lexer.phase = "read"
    /\ lexer.pos < Len(lexer.source)
    /\ Reader(lexer) = "number"
    /\ lexer' = [_read_number(lexer) EXCEPT !.phase = "skip"]
    /\ UNCHANGED <<loop, machine, frames, call>>

ReadIdentifier ==
    /\ lexer.phase = "read"
    /\ lexer.pos < Len(lexer.source)
    /\ Reader(lexer) = "identifier"
    /\ lexer' = [_read_identifier(lexer) EXCEPT !.phase = "skip"]
    /\ UNCHANGED <<loop, machine, frames, call>>

ReadOperator ==
    /\ lexer.phase = "read"
    /\ lexer.pos < Len(lexer.source)
    /\ Reader(lexer) = "operator"
    /\ lexer' = [_read_operator(lexer) EXCEPT !.phase = "skip"]
    /\ UNCHANGED <<loop, machine, frames, call>>

\* the loop ends (its condition fails, or the break after the skip):
\* self.tokens.append(Token(TokenType.EOF, None, self.line, self.col))
EndOfFile ==
    /\ lexer.phase \in {"skip", "read"}
    /\ lexer.pos >= Len(lexer.source)
    /\ lexer' = [Emit_token(lexer, lexer, "EOF", None) EXCEPT !.phase = "done"]
    /\ UNCHANGED <<loop, machine, frames, call>>

LexNext ==
    \/ Skip \/ ReadString \/ ReadNumber \/ ReadIdentifier \/ ReadOperator \/ EndOfFile

LexSpec == LexInit /\ [][LexNext]_vars

(***************************************************************************)
(* class AsyncTask, class EventLoop.  A coroutine is a generator object    *)
(* that suspends `yields` times and then returns `value`: [yields, left,   *)
(* value, finished], left being the suspensions still to come.  Each task  *)
(* wraps a coroutine object of its own; `sent` counts the calls of step on *)
(* a task (a field of the model only).  Nothing in the program adds to     *)
(* `scheduled`.                                                            *)
(***************************************************************************)
Coroutine(yields, value) ==
    [yields |-> yields, left |-> yields, value |-> value, finished |-> FALSE]

\* coro.send(None): the coroutine suspends again, or returns (StopIteration
\* carrying its value; an exhausted generator raises it carrying None)
send(coro) ==
    IF coro.finished THEN [coro |-> coro, stop |-> TRUE, value |-> None]
    ELSE IF coro.left > 0
    THEN [coro |-> [coro EXCEPT !.left = @ - 1], stop |-> FALSE, value |-> None]
    ELSE [coro |-> [coro EXCEPT !.finished = TRUE], stop |-> TRUE, value |-> coro.value]

AsyncTask(coro) == [coro |-> coro, done |-> FALSE, result |-> None, sent |-> 0]

\* AsyncTask.step
AfterSend(task, s) ==
    IF s.stop
    THEN [task EXCEPT !.coro = s.coro, !.done = TRUE, !.result = s.value, !.sent = @ + 1]
    ELSE [task EXCEPT !.coro = s.coro, !.sent = @ + 1]
step(task) == AfterSend(task, send(task.coro))

\* EventLoop.create_task
create_task(lp, coro) ==
    [lp EXCEPT !.tasks = Append(@, AsyncTask(coro)), !.ready = Append(@, Len(lp.tasks) + 1)]

\* the test of the while loop of run_until_complete
LoopGoesOn(lp) == lp.running /\ (lp.ready # <<>> \/ lp.scheduled # <<>>)

\* a stepped task that is not done goes to the front of the deque
Requeue_at_front(lp, t, stepped) ==
    IF ~stepped.done
    THEN [lp EXCEPT !.tasks[t] = stepped, !.ready = <<t>> \o @]
    ELSE [lp EXCEPT !.tasks[t] = stepped]

\* t.step(); if not t.done: self.ready.append(t)
Requeue(lp, t, stepped) ==
    IF ~stepped.done
    THEN [lp EXCEPT !.tasks[t] = stepped, !.ready = Append(@, t)]
    ELSE [lp EXCEPT !.tasks[t] = stepped]

\* one iteration of the while loop of run_until_complete
LoopBody(lp) ==
    IF lp.ready # <<>>
    THEN IF ~lp.tasks[Head(lp.ready)].done
         THEN Requeue([lp EXCEPT !.ready = Tail(@)], Head(lp.ready),
                      step(lp.tasks[Head(lp.ready)]))
         ELSE [lp EXCEPT !.ready = Tail(@)]
    ELSE [lp EXCEPT !.phase = "break"]

LoopInit ==
    /\ IdleMachine
    /\ frames = <<>>
    /\ call = NoCall
    /\ lexer = NoLexer
    /\ loop = EventLoop

\* loop.create_task(coro) by the client, outside run_until_complete; the
\* coroutine of task i returns the number i
CreateTask ==
    /\ loop.phase \in {"idle", "returned"}
    /\ Len(loop.tasks) < MaxTasks - 1
    /\ \E y \in 0..MaxYields :
          loop' = [create_task(loop, Coroutine(y, NumV(Len(loop.tasks) + 1)))
                      EXCEPT !.phase = "idle"]
    /\ UNCHANGED <<machine, frames, call, lexer>>

\* run_until_complete(coro): task = self.create_task(coro); self.running = True
RunUntilComplete ==
    /\ loop.phase \in {"idle", "returned"}
    /\ Len(loop.tasks) < MaxTasks
    /\ \E y \in 0..MaxYields :
          loop' = [create_task(loop, Coroutine(y, NumV(Len(loop.tasks) + 1)))
                      EXCEPT !.running = TRUE, !.phase = "loop",
                             !.main = Len(loop.tasks) + 1]
    /\ UNCHANGED <<machine, frames, call, lexer>>

\* an iteration of `while self.running and (self.ready or self.scheduled)`
Iterate ==
    /\ loop.phase = "loop"
    /\ LoopGoesOn(loop)
    /\ loop' = LoopBody(loop)
    /\ UNCHANGED <<machine, frames, call, lexer>>

\* return task.result if task.done else None
ReturnResult ==
    /\ \/ loop.phase = "loop" /\ ~LoopGoesOn(loop)
       \/ loop.phase = "break"
    /\ loop' = [loop EXCEPT !.phase = "returned",
                            !.returned = IF loop.tasks[loop.main].done
                                         THEN loop.tasks[loop.main].result ELSE None]
    /\ UNCHANGED <<machine, frames, call, lexer>>

LoopNext == CreateTask \/ RunUntilComplete \/ Iterate \/ ReturnResult

\* run_until_complete is sequential code: once called, its loop keeps
\* iterating and its return statement is reached when the loop ends
LoopSpec == LoopInit /\ [][LoopNext]_vars /\ WF_vars(Iterate) /\ WF_vars(ReturnResult)

(***************************************************************************)
(* Claims.                                                                 *)
(***************************************************************************)

\* C1: an assignment in a function body to a name bound in the defining
\* scope updates that outer binding: once `let x = 0` and `func f` have
\* executed, no call of f fails and the global x equals the number of calls
\* of f made so far.
C1_OuterBindingUpdated ==
    (prog.fam = "scope" /\ mode = "ast" /\ pc > 2) =>
        /\ status # "failed"
        /\ scope["x"] = NumV(pc - 3)

\* C2: after `const NAME = v`, the assignment `NAME = w` raises an error and
\* NAME stays bound to v; with let or var the assignment raises no error
\* and rebinds NAME to w.
C2_ConstReassignmentRejected ==
    (prog.fam = "const" /\ mode = "ast" /\ (pc > 2 \/ status = "failed")) =>
        IF prog.kind = "const"
        THEN status = "failed" /\ pc = 2 /\ scope["NAME"] = NumV(prog.v)
        ELSE status # "failed" /\ scope["NAME"] = NumV(prog.w)

\* C3: calling an async function runs no statement of its body; the body
\* runs only once an await is evaluated, whatever is done with the returned
\* value before: every "body" the program prints comes after the "pre"
\* that the program prints right before its await statement.
C3_NoBodyBeforeAwait ==
    (prog.fam = "async" /\ mode = "ast") =>
        \A i \in 1..Len(world.out) :
            world.out[i] = "body" => \E j \in 1..(i - 1) : world.out[j] = "pre"

\* C4: `await e` on the suspended computation of an async function runs
\* the body, and the bodies it awaits to any depth, to completion before
\* the enclosing expression goes on, and yields the returned value: the
\* bodies print in nesting order before the right operand g() of the
\* enclosing `+` prints, and r is v + (d - 1).
RECURSIVE AwaitTrace(_)
AwaitTrace(i) ==
    IF i = 1 THEN <<FName(1)>>
    ELSE <<FName(i) \o ">">> \o AwaitTrace(i - 1) \o <<FName(i) \o "<">>

AwaitStmtIndex == prog.d + (IF prog.form = "bound" THEN 4 ELSE 3)

C4_AwaitRunsToCompletion ==
    (prog.fam = "await" /\ mode = "ast") =>
        /\ status # "failed"
        /\ pc > AwaitStmtIndex =>
              LET expected == <<"pre">> \o AwaitTrace(prog.d) \o <<"g">> IN
              /\ Len(world.out) >= Len(expected)
              /\ SubSeq(world.out, 1, Len(expected)) = expected
              /\ scope["r"] = NumV(prog.v + prog.d - 1)

C4_Witness ==
    /\ prog.fam = "await" /\ mode = "ast" /\ prog.d >= 2 /\ prog.form = "direct"
    /\ status = "done"
    /\ scope["r"] = NumV(prog.v + prog.d - 1)

RECURSIVE Count(_, _)
Count(seq, x) ==
    IF seq = <<>> THEN 0
    ELSE (IF Head(seq) = x THEN 1 ELSE 0) + Count(Tail(seq), x)

Occurs(seq, x) == \E i \in 1..Len(seq) : seq[i] = x

\* the try statement (statement 2 of a "try" program) has been executed
TryExecuted == pc > 2 \/ status = "failed"

\* C5: the finally block runs exactly once and last, after a try block
\* that completed, after a catch block that completed and after a catch
\* block that raised: "f" is printed once and none of the prints of the try
\* and catch blocks comes after it; the statements of the try block after
\* the throw never run; a catch block runs only for an error of the try
\* block, with e bound to str() of that error.
C5_FinallyOnceAndLast ==
    (prog.fam = "try" /\ mode = "ast") =>
        LET out == world.out IN
        /\ (prog.fink # "none" /\ TryExecuted) =>
              /\ Count(out, "f") = 1
              /\ \A i, j \in 1..Len(out) :
                    (out[i] = "f" /\ j > i) =>
                        out[j] \notin {"t1", "t2", "c", "c2", ErrMark \o "boom"}
        /\ prog.tryk = "throw" => ~Occurs(out, "t2")
        /\ \A i \in 1..Len(out) :
              out[i] = "c" =>
                  /\ prog.tryk = "throw"
                  /\ i < Len(out) /\ out[i + 1] = ErrMark \o "boom"

C5_Witness ==
    /\ prog.fam = "try" /\ mode = "ast"
    /\ prog.tryk = "throw" /\ prog.catchk = "throw" /\ prog.fink = "ok"
    /\ status = "failed"
    /\ result = StrV(ErrMark \o "cerr")
    /\ Occurs(world.out, "f2")

\* C6: an error of the try block that the catch block handled does not
\* leave the try statement, and the statement after it runs; an error
\* raised by the finally block leaves the try statement although the catch
\* block completed.
C6_CaughtErrorStopsFinallyErrorPropagates ==
    (prog.fam = "try" /\ mode = "ast" /\ prog.tryk = "throw"
        /\ prog.catchk \in {"ok", "empty"} /\ TryExecuted) =>
        IF prog.fink = "throw"
        THEN /\ status = "failed" /\ pc = 2
             /\ result = StrV(ErrMark \o "ferr")
             /\ ~Occurs(world.out, "after")
        ELSE /\ status # "failed"
             /\ pc > 3 => world.out[Len(world.out)] = "after"

C6_Witness ==
    /\ prog.fam = "try" /\ mode = "ast"
    /\ prog.tryk = "throw" /\ prog.catchk = "ok" /\ prog.fink = "throw"
    /\ status = "failed"
    /\ Occurs(world.out, "c2")
    /\ result = StrV(ErrMark \o "ferr")

\* C7: a break in a loop body, at any nesting depth of if and try blocks,
\* exits the innermost loop and only it: in each of the two iterations of
\* the outer loop the inner body starts once ("b"), nothing of it runs
\* after the break ("x"), the inner condition is tested once ("c") and the
\* increment never ("inc"), and the outer loop goes on ("next").
C7_BreakExitsInnermostLoop ==
    (prog.fam = "break" /\ mode = "ast" /\ (pc > 2 \/ status = "failed")) =>
        LET out == world.out IN
        /\ status # "failed"
        /\ Count(out, "outer") = 2
        /\ Count(out, "next") = 2
        /\ Count(out, "b") = 2
        /\ Count(out, "x") = 0
        /\ Count(out, "inc") = 0
        /\ Count(out, "c") = (IF prog.loopk = "for_in" THEN 0 ELSE 2)

\* C8: in a C-style for loop a continue skips the rest of the body, inc is
\* then evaluated once before the next test of cond, and init is evaluated
\* once before the first test: the loop prints "init", then for each
\* iteration "c" "b" ["x" unless the continue was executed] "inc", then the
\* last "c".
RECURSIVE ContinueTrace(_, _)
ContinueTrace(i, at) ==
    IF i > MaxIter THEN <<"c">>
    ELSE <<"c", "b">> \o (IF at = 0 \/ at = i THEN <<>> ELSE <<"x">>) \o <<"inc">>
         \o ContinueTrace(i + 1, at)

C8_ContinueRunsIncrement ==
    (prog.fam = "continue" /\ mode = "ast") =>
        /\ status # "failed"
        /\ pc = 3 => world.out = <<"init">> \o ContinueTrace(1, prog.at)
        /\ pc = 3 => scope["i"] = NumV(MaxIter)

C8_Witness ==
    /\ prog.fam = "continue" /\ mode = "ast" /\ prog.at = 2
    /\ status = "done"
    /\ Count(world.out, "x") = MaxIter - 1
    /\ Count(world.out, "inc") = MaxIter

\* C10: `a and b` / `a or b` do not evaluate b when a decides (a falsy for
\* and, a truthy for or), so b's side effects do not occur, and the result
\* is the deciding operand itself.
LeftDecides == IF prog.op = "AND" THEN ~Truthy(prog.a) ELSE Truthy(prog.a)

C10_ShortCircuit ==
    (prog.fam = "logic" /\ mode = "ast" /\ pc > 2 /\ LeftDecides) =>
        /\ ~Occurs(world.out, "rhs")
        /\ scope["r"] = prog.a

\* C9: a program of the compiled subset (literals, variable loads, assignments
\* to variables, + - * /, direct calls of host callables, expression
\* statements) run by BytecodeCompiler and BytecodeVM ends with the same
\* global-variable table as the tree-walking evaluator run on it from the
\* same initial table.
C9_BytecodeMatchesEvaluator ==
    (mode = "bytecode" /\ prog.fam = "bytecode" /\ status # "running")
        => scope = _eval_program(Program(prog.code), GlobalScope, EmptyWorld).sc

\* C11: a return executed anywhere inside a function body (in if blocks, loop
\* bodies, try blocks with or without a catch block) ends the call at once:
\* no later statement of the body runs and the call expression evaluates to
\* the returned value.
C11_ReturnEndsCall ==
    (mode = "ast" /\ prog.fam = "return" /\ status = "done")
        => /\ world.out = <<"a", PyStr(NumV(prog.v))>>
           /\ scope["r"] = NumV(prog.v)

\* C12: a declared function can call itself, and two functions declared one
\* after the other in the same scope can call each other, at the top level
\* and inside another function: the lookup of the callee's name inside the
\* body succeeds on every call, so the countdown runs to its end.
C12_RecursionResolves ==
    (mode = "ast" /\ prog.fam = "recursion") => status # "failed"

\* C13: in a call of a user function with parameters p1..pk and arguments
\* a1..an the callee expression is evaluated first and the arguments then
\* left to right; pi is bound to ai for i <= min(k, n), parameters beyond n
\* are bound to null, arguments beyond k are ignored; the call's value is the
\* value of the first return executed, or of the last body statement when
\* no return fires (null for an empty body).
CallValue(tail, k) ==
    CASE tail = "ret"  -> NumV(7)
      [] tail = "expr" -> NumV(5)
      [] tail = "none" -> None        \* empty body, or print's null

C13_CallBindsAndReturns ==
    (mode = "ast" /\ prog.fam = "call")
        => /\ status # "failed"
           /\ status = "done" =>
                /\ world.out = <<"callee">>
                                 \o [i \in 1..prog.n |-> ToString(i)]
                                 \o [i \in 1..prog.k |-> IF i <= prog.n THEN ToString(i)
                                                         ELSE "None"]
                                 \o <<PyStr(CallValue(prog.tail, prog.k))>>
                /\ scope["r"] = CallValue(prog.tail, prog.k)

C13_Witness ==
    /\ mode = "ast" /\ prog.fam = "call" /\ status = "done"
    /\ prog.k = 2 /\ prog.n = 1 /\ prog.tail = "ret"
    /\ world.out = <<"callee", "1", "1", "None", "7">>

\* C14: for an instance of the class at the bottom of a single-inheritance
\* chain, `new K().greet()` evaluates to the result of the greet defined in
\* the most-derived class of the chain that defines it (with class A
\* defining greet and class B < A empty, new B().greet() returns "A").
MostDerived(S) == CHOOSE i \in S : \A j \in S : j <= i

C14_MethodResolvesAlongChain ==
    (mode = "ast" /\ prog.fam = "class" /\ prog.defs # {})
        => /\ status # "failed"
           /\ status = "done" => scope["r"] = StrV(ClassName(MostDerived(prog.defs)))

\* C15: the response of a route handler's invocation is decided by the
\* handler's outcome: no return executed gives an empty success response, a
\* returned string a text/HTML response with that string, a returned mapping
\* that mapping as JSON, any other returned value its string form; and the
\* statements after the executed return do not run.
ExpectedResponse(kind) ==
    CASE kind = "none" -> Response(200, "text/plain", StrV(""))
      [] kind \in {"str", "in_if"} -> Response(200, "text/html", StrV("hi"))
      [] kind = "map" -> Response(200, "application/json", DictV([a |-> NumV(1)]))
      [] kind = "num" -> Response(200, "text/plain", StrV("7"))

C15_ResponseFollowsOutcome ==
    (prog.fam = "web" /\ prog.kind \in {"none", "str", "map", "num", "in_if"})
        => \A i \in 1..Len(requests) :
              requests[i].st = "done"
                  => /\ requests[i].response = ExpectedResponse(prog.kind)
                     /\ prog.kind # "none" => ~(\E j \in 1..Len(world.out) : world.out[j] = "h2")

\* C16: each invocation of a route handler runs against its own copy of the
\* handler's captured scope: under any interleaving of invocations of the
\* same handler a name assigned during one invocation is never read by
\* another one, and no invocation changes the bindings of the handler's
\* stored closure or of the evaluator's global scope.
\* The scope in which the handler was declared, which is also the global
\* scope when the server starts: the builtins and n = 0.
DeclScope == SetItem(GlobalScope, "n", NumV(0))

\* the local scope an invocation starts with, given its request
InitialLocal(rq) ==
    SetItem(SetItem(SetItem(DeclScope, "request_args", rq.local_scope["request_args"]),
                    "request_json", DictV(EmptyDict)),
            "request_method", StrV("GET"))

\* the local scope of an invocation that has run its first k statements on
\* its own
RECURSIVE SoloScope(_, _, _, _)
SoloScope(body, i, k, local) ==
    IF i > k THEN local
    ELSE LET c == eval(body[i], local, world) IN
         IF c.k = "normal" THEN SoloScope(body, i + 1, k, c.sc) ELSE c.sc

Isolated ==
    /\ scope = SetItem(DeclScope, "h", scope["h"])
    /\ \A r \in 1..Len(world.routes) : world.routes[r].handler_func[5] = DeclScope
    /\ \A i \in 1..Len(requests) :
          LET rq == requests[i]
              body == HandlerBody(prog.kind)
              k == IF rq.pc > Len(body) THEN Len(body)
                   ELSE IF rq.st = "done" THEN rq.pc ELSE rq.pc - 1
          IN  rq.local_scope = SoloScope(body, 1, k, InitialLocal(rq))

C16_InvocationsIsolated ==
    (prog.fam = "web" /\ status = "serving") => Isolated

\* C16 (amended): the same for the handlers whose assignments are to
\* variable names (name = value); the stores made through the global
\* namespace (global.name = value) go to the evaluator's global scope.
C16_InvocationsIsolated_PlainAssignments ==
    (prog.fam = "web" /\ prog.kind # "globalns" /\ status = "serving") => Isolated

C16_Witness ==
    /\ prog.fam = "web" /\ prog.kind = "assign" /\ status = "serving"
    /\ Len(requests) = 2
    /\ requests[1].st = "running" /\ requests[1].pc = 3
    /\ requests[2].st = "running" /\ requests[2].pc = 3
    /\ requests[1].local_scope["n"] = NumV(1)
    /\ requests[2].local_scope["n"] = NumV(1)

\* C17: in the evaluator a / 0 is positive infinity and a % 0 is 0 for every
\* numeric a, and no error is raised; BINARY_DIV of the bytecode VM likewise
\* pushes positive infinity when the divisor is 0.
C17_DivisionByZero ==
    (prog.fam = "div" /\ prog.b = 0 /\ (mode = "ast" \/ prog.op = "DIV"))
        => /\ status # "failed"
           /\ status = "done" => scope["x"] = (IF prog.op = "DIV" THEN InfV ELSE NumV(0))

C17_Witness ==
    /\ prog.fam = "div" /\ prog.b = 0 /\ prog.a < 0 /\ prog.op = "DIV"
    /\ mode = "ast" /\ status = "done"
    /\ scope["x"] = InfV

\* C18: formatting is idempotent: a file that `--fmt` has formatted once is
\* left unchanged by every later run, the level each line is written at in
\* a later pass is the level of the first pass, and no level is below zero
\* (a blank line has no level)
C18_FormatIdempotent ==
    (mode = "fmt" /\ pc > 1) =>
        LET once == format(prog.source) IN
        /\ world.file = Text(once)
        /\ format(once) = once
        /\ Levels(once, 1, 0, <<>>) = Levels(prog.source, 1, 0, <<>>)
        /\ \A i \in DOMAIN once :
              strip(once[i]) # <<>> => Levels(once, 1, 0, <<>>)[i] >= 0

\* a file whose lines carried whitespace and a closing brace at level zero
\* has been formatted twice, and the first pass changed it
C18_Witness ==
    /\ mode = "fmt"
    /\ pc > 2
    /\ world.file # Text(prog.source)
    /\ Len(prog.source) >= 2
    /\ startswith(strip(prog.source[1]), "}")
    /\ \E i \in DOMAIN world.file[2] : Len(world.file[2][i]) > indent_size

\* the nearest frame of the chain holding the key, 0 when none holds it
Nearest(fs, key) ==
    IF \E i \in 1..Len(fs) : key \in DOMAIN fs[i].data
    THEN CHOOSE i \in 1..Len(fs) :
            /\ key \in DOMAIN fs[i].data
            /\ \A j \in 1..(i - 1) : key \notin DOMAIN fs[j].data
    ELSE 0

\* C19: a lookup from the innermost frame of a chain (scope[key],
\* scope.get(key, default), scope.has_key(key)) gives the binding of the
\* nearest frame holding the key, whatever the frames in between hold, and
\* KeyError / the default / False only when no frame of the chain holds it
C19_LookupFindsNearest ==
    LET n == Nearest(frames, call.key) IN
    /\ call.kind = "getitem" =>
          call.out = IF n = 0 THEN KeyError(call.key) ELSE frames[n].data[call.key]
    /\ call.kind = "get" =>
          call.out = IF n = 0 THEN StrV("default") ELSE frames[n].data[call.key]
    /\ call.kind = "has_key" => call.out = BoolV(n # 0)

\* C20: an assignment scope[key] = value that is carried out changes exactly
\* one frame of the chain: the current one when it holds the key, else the
\* nearest ancestor holding it, else the current one, where the key is
\* created; every other frame keeps its bindings
C20_AssignmentChangesOneFrame ==
    (call.kind = "setitem" /\ call.out = "ok") =>
        LET n == Nearest(call.before, call.key)
            t == IF n = 0 THEN 1 ELSE n
        IN frames = [call.before EXCEPT ![t].data = SetItem(@, call.key, call.value)]

\* C21: an assignment to a key whose nearest binding in the chain is a
\* constant of its frame F (made on F or on a descendant that does not
\* hold the key) fails with the constant-reassignment error and leaves
\* every frame unchanged; an assignment through a frame that holds its own
\* non-constant binding of the key is carried out
C21_ConstantRejectsAssignment ==
    call.kind = "setitem" =>
        LET n == Nearest(call.before, call.key) IN
        /\ (n # 0 /\ call.key \in call.before[n].consts) =>
              /\ call.out = "Assignment to constant variable '" \o call.key \o "'"
              /\ frames = call.before
        /\ (call.key \in DOMAIN call.before[1].data /\ call.key \notin call.before[1].consts) =>
              /\ call.out = "ok"
              /\ frames = [call.before EXCEPT ![1].data = SetItem(@, call.key, call.value)]

\* C22: at a CALL N instruction of a compiled call (the compiler has pushed
\* the N arguments and then the callee) the VM pops the N arguments, in
\* their left-to-right order, and the callee; a host callable is invoked
\* once with exactly those arguments, and its result is pushed when it is
\* not null
C22_CallPopsArgsAndCallee ==
    [][ (mode = "bytecode" /\ prog.fam = "bytecode" /\ bvm.st = "running"
         /\ bvm.ip <= Len(bvm.instructions)
         /\ bvm.instructions[bvm.ip][1] = "CALL")
        => LET n      == bvm.instructions[bvm.ip][2]
               stack  == bvm.stack
               callee == stack[Len(stack)]
               args   == SubSeq(stack, Len(stack) - n, Len(stack) - 1)
               below  == SubSeq(stack, 1, Len(stack) - n - 1)
           IN  /\ Len(stack) >= n + 1
               /\ IsHost(callee) =>
                    LET h == CallHost(callee[2], args, world.out) IN
                    /\ world'.out = h.out
                    /\ h.exc = "" =>
                         bvm'.stack = IF h.v # None THEN Append(below, h.v) ELSE below
      ]_vars

\* the line and column of the character at 0-based index `at` of a source
LineOf(source, at) == 1 + Cardinality({i \in 1..at : source[i] = "\n"})
ColOf(source, at) ==
    LET newlines == {i \in 1..at : source[i] = "\n"} IN
    at + 1 - (IF newlines = {} THEN 0 ELSE CHOOSE i \in newlines : \A j \in newlines : j <= i)

\* C23: every token emitted for a first character carries the 1-based line
\* and column of that character: each character before it on its line
\* counts one column, each newline starts a new line at column 1
C23_TokenPositionsExact ==
    \A i \in DOMAIN lexer.tokens :
        LET t == lexer.tokens[i] IN
        t.type # "EOF" =>
            /\ t.line = LineOf(lexer.source, t.at)
            /\ t.col = ColOf(lexer.source, t.at)

\* the types and values of a token list
TypesAndValues(tokens) == [i \in DOMAIN tokens |-> <<tokens[i].type, tokens[i].value>>]

\* C24 as stated: `1.2.3` tokenizes as the number 1.2, a DOT token, the
\* number 3 and EOF
C24_SecondDotIsDanglingDot ==
    (lexer.source = <<"1", ".", "2", ".", "3">> /\ lexer.phase = "done") =>
        TypesAndValues(lexer.tokens) =
            << <<"NUMBER", FloatV(12, 10)>>, <<"DOT", StrV(".")>>, <<"NUMBER", NumV(3)>>,
               <<"EOF", None>> >>

\* C24, amended: a second `.` ends the number, and being followed by a digit
\* it starts the next one: `1.2.3` tokenizes as the number 1.2, the number
\* 0.3 and EOF; the DOT token appears when no digit follows the second `.`
\* (`1.2.x` gives 1.2, DOT, x, EOF)
C24_SecondDotStartsNextNumber ==
    lexer.phase = "done" =>
        /\ lexer.source = <<"1", ".", "2", ".", "3">> =>
              TypesAndValues(lexer.tokens) =
                  << <<"NUMBER", FloatV(12, 10)>>, <<"NUMBER", FloatV(3, 10)>>,
                     <<"EOF", None>> >>
        /\ lexer.source = <<"1", ".", "2", ".", "x">> =>
              TypesAndValues(lexer.tokens) =
                  << <<"NUMBER", FloatV(12, 10)>>, <<"DOT", StrV(".")>>,
                     <<"IDENTIFIER", StrV("x")>>, <<"EOF", None>> >>

C24_Witness ==
    /\ lexer.source = <<"1", ".", "2", ".", "3">>
    /\ lexer.phase = "done"
    /\ Len(lexer.tokens) = 3

\* C25: an error raised in the try block of a try statement without a catch
\* clause is not discarded: after the finally block (if any) has run it
\* leaves the try statement, the program fails with it and the statement
\* after the try statement does not run.
C25_UncaughtErrorPropagates ==
    (prog.fam = "try" /\ mode = "ast" /\ prog.tryk = "throw"
        /\ prog.catchk = "none" /\ TryExecuted) =>
        /\ status = "failed"
        /\ pc = 2
        /\ prog.fink # "throw" => result = StrV(ErrMark \o "boom")
        /\ prog.fink # "none" => Occurs(world.out, "f")
        /\ ~Occurs(world.out, "after")

\* C26: on the instruction list compile produces for any program, node kinds
\* the compiler skips included, BytecodeVM.run never pops from an empty
\* stack, every STORE_VAR and binary instruction finds its operands, and the
\* run reaches HALT without a host-level failure.
C26_BytecodeRunReachesHalt ==
    mode = "bytecode" =>
        /\ bvm.st # "crashed"
        /\ (bvm.st = "running" /\ bvm.ip <= Len(bvm.instructions)) =>
              LET op == bvm.instructions[bvm.ip][1] IN
              /\ op = "STORE_VAR" => Len(bvm.stack) >= 1
              /\ op \in {"BINARY_ADD", "BINARY_SUB", "BINARY_MUL", "BINARY_DIV"}
                    => Len(bvm.stack) >= 2

\* C27: a break or continue executed in a function body outside any loop of
\* that body does not cross the call boundary: it neither exits nor advances
\* the loop of the caller.  Unless the program fails, the caller's loop body
\* goes on after each call of f ("x" follows what f printed) and the loop
\* makes all its iterations.
C27_JumpStaysInsideCall ==
    (prog.fam = "jump_in_callee" /\ mode = "ast" /\ pc > 3 /\ status # "failed") =>
        LET out == world.out IN
        /\ Count(out, "b") = MaxIter
        /\ Count(out, "x") = Count(out, "f")
        /\ \A i \in 1..Len(out) :
              out[i] = "f" => (i < Len(out) /\ out[i + 1] \in {"g", "x"})

\* C28: the body of a suspended computation runs at most once.  After the
\* first await of the value t = f() the body has run once (to its return,
\* its end or its error); every later await of the same value executes no
\* statement of the body again and yields null, without error.
C28_SecondAwaitRunsNothing ==
    (prog.fam = "await_again" /\ mode = "ast") =>
        /\ status # "failed"
        /\ Count(world.out, "body") = (IF pc > 3 THEN 1 ELSE 0)
        /\ ~Occurs(world.out, "b2")
        /\ pc > 3 => Count(world.out, "None") = (pc - 4) \div 2
        /\ pc > 4 => (Has(scope, "s") /\ scope["s"] = None)
        /\ (pc > 3 /\ prog.body = "return") => scope["r"] = NumV(42)

C28_Witness ==
    /\ prog.fam = "await_again" /\ mode = "ast"
    /\ prog.body = "return" /\ prog.n = MaxAwaits
    /\ status = "done"
    /\ scope["r"] = NumV(42) /\ scope["s"] = None
    /\ world.out = <<"body">> \o [i \in 1..(MaxAwaits - 1) |-> "None"]

\* the tasks in the ready queue are in first-in first-out order of their
\* turns: a task nearer the front has been stepped no more often than one
\* behind it, and at most once less
RoundRobin ==
    \A i, j \in DOMAIN loop.ready :
        i < j =>
            /\ loop.tasks[loop.ready[i]].sent <= loop.tasks[loop.ready[j]].sent
            /\ loop.tasks[loop.ready[j]].sent <= loop.tasks[loop.ready[i]].sent + 1

\* a task is stepped until its coroutine returns and never after: it is
\* done exactly when it was stepped once more than its coroutine suspends,
\* and then holds the coroutine's return value
NoStepWhenDone ==
    \A t \in DOMAIN loop.tasks :
        LET task == loop.tasks[t] IN
        /\ task.sent <= task.coro.yields + 1
        /\ task.done <=> task.sent = task.coro.yields + 1
        /\ task.done => task.result = task.coro.value

\* when run_until_complete has returned, the ready queue is empty and the
\* value returned is the return value of the coroutine it was given
ReturnsResult ==
    loop.phase = "returned" =>
        /\ loop.ready = <<>>
        /\ loop.returned = loop.tasks[loop.main].coro.value

\* C29: run_until_complete(coro) steps the tasks of the ready queue in FIFO
\* round-robin order and never steps a task that is done; every coroutine
\* finishing after finitely many steps, it eventually returns, and then the
\* ready queue is empty and the returned value is the return value of coro.
C29_RunUntilCompleteReturns ==
    /\ [](RoundRobin /\ NoStepWhenDone /\ ReturnsResult)
    /\ (loop.phase = "loop") ~> (loop.phase = "returned")

C29_Witness ==
    /\ loop.phase = "returned"
    /\ Len(loop.tasks) = MaxTasks
    /\ loop.main = MaxTasks
    /\ loop.tasks[1].sent = MaxYields + 1
    /\ loop.tasks[2].sent = 1
    /\ loop.tasks[loop.main].sent = 2
    /\ loop.returned = NumV(MaxTasks)

\* C30: VM.eval on a program node returns the value of the last statement
\* executed, the value _eval_program computes (what the REPL prints when it
\* is not null); a top-level `return v` makes it return v, and the
\* statements after it do not run.
C30_EvalReturnsLastValue ==
    (prog.fam = "repl" /\ mode = "ast" /\ status = "done") =>
        /\ result = _eval_program(Program(prog.code), GlobalScope, EmptyWorld).v
        /\ result = NumV(IF prog.kind = "expr" THEN prog.a + 1 ELSE prog.a)
        /\ ~Occurs(world.out, "b")

====
